---- MODULE Spec2Model ----
(***************************************************************************)
(* Duplex streaming / verification harness of the Aurora loopback          *)
(* examples (examples/aurora_loopback_host.py,                             *)
(* examples/aurora_loopback_nullsrcsink.py, examples/common.py).           *)
(*                                                                         *)
(* The module holds one specification per unit under verification:         *)
(*   SpecRx    rx_function driven by an arbitrary transport                *)
(*   SpecTx    tx_function driven by a transport that accepts samples      *)
(*   SpecCmp   compare (mirror verification)                               *)
(*   SpecHost  the two pump threads of the host loopback and main's joins  *)
(*   SpecNull  generate_data_and_stream_to_host of the NullSrcSink script  *)
(* Every specification owns a group of variables; the groups it does not   *)
(* use stay at their idle value.                                           *)
(***************************************************************************)
EXTENDS Integers, Sequences, FiniteSets, TLC

(***************************************************************************)
(* Bounds of the model.                                                    *)
(***************************************************************************)
MaxChans == 2
MaxBuf == 2
MaxTarget == 3
MaxLen == 3
MaxIter == 2
MaxReps == 2
MaxPending == 2
MaxLink == 2
MaxStale == 1
MaxWordsPerLine == 4
MaxWords == 6
MaxRestarts == 2
MaxLine == 65536
MaxNameLen == 3
MaxFiles == 2
MaxTimeout == 3
MaxTick == 2

\* sample values of the files handed to compare
Samples == {0, 1}

\* sample number n of channel idx of a counter file or stream: the samples
\* of one channel differ by position, and differ from those of the other
\* channels and from the 0 of a fresh np.zeros buffer
CounterSample(idx, n) == 100 * idx + n

\* the first n samples of channel idx
CounterData(idx, n) == [i \in 1..n |-> CounterSample(idx, i)]

\* uhd.types.RXMetadataErrorCode; "other" stands for every code that is
\* neither none, timeout nor overflow
ErrorCodes == {"none", "timeout", "overflow", "other"}

\* the value of a thread result that was never set (Python None)
NoneVal == -1

VARIABLES
    \* ---- configuration shared by the pumps and the verifier
    num_chans,          \* tx_buffer.shape[0] / rx_buffer.shape[0]
    buffer_size,        \* args.buffer_size, the second dimension of the buffers
    \* ---- rx_function
    rx_pc,              \* "idle", "loop", "done"
    rx_num_samples,     \* the target, parameter num_samples
    num_rx,
    reported_overflow,
    rx_buffer,          \* [channel -> sequence of buffer_size samples]
    rx_files,           \* [channel -> content of the sink]
    rx_out,             \* lines printed by rx_function
    rx_ret,             \* value returned, NoneVal before the return
    rx_calls,           \* history of the recv calls: <<received, error_code>>
    \* ---- tx_function
    tx_pc,              \* "idle", "iter", "read", "send", "done", "raised"
    tx_files,           \* [channel -> content of the source]
    tx_fpos,            \* [channel -> read position of the source]
    tx_iterations,      \* parameter iterations
    tx_iteration,       \* local iteration
    tx_buffer,          \* [channel -> sequence of buffer_size samples]
    buffer_len_current,
    num_tx,
    num_tx_iteration,
    num_tx_current,
    tx_ret,             \* value returned, NoneVal before the return
    tx_sent,            \* [channel -> samples the transport accepted, in order]
    tx_calls,           \* history of the send calls: <<requested, accepted>>
    \* ---- compare
    cmp_pc,             \* "idle", "loop", "ok", "eof_reference",
                        \* "eof_received", "mismatch"
    reference_file,     \* content of the expected source
    received_file,      \* content of the received source
    ref_pos,            \* read position of reference_file
    rec_pos,            \* read position of received_file
    num_samples_total,
    num_iterations,
    processed_samples,
    cmp_iteration,      \* local iteration
    cmp_reference,      \* local reference, the chunk read last
    cmp_received,       \* local received, the chunk read last
    \* ---- host loopback: main and the transport between the two pumps
    host_pc,            \* "idle", "flush", "start_rx", "start_tx", "join_tx",
                        \* "join_rx", "joined", "stats", "verify",
                        \* "compare", "exit"
    link,               \* [channel -> samples sent and not yet received]
    host_num_tx,        \* main's num_tx, NoneVal before the join
    host_num_rx,        \* main's num_rx, NoneVal before the join
    \* ---- host loopback: main from the joins to the exit
    errors,             \* main's list errors
    main_out,           \* "OK", "PASS" and the ERROR lines printed by main
    main_idx,           \* index of the verification loop, counted from 1
    exit_code,          \* exit status of the process, NoneVal while it runs
    main_raised,        \* the exception that ended main, "none" otherwise
    \* ---- NullSrcSinkReferenceData: one entry per object
    gen_mask,           \* self.mask
    gen_iteration,      \* self.iteration, NoneVal before __iter__
    gen_line,           \* self.line
    gen_hi,             \* self.hi
    gen_lo,             \* self.lo
    gen_retval,         \* the value __next__ returned last
    gen_words,          \* the values returned since the last __iter__
    gen_iters,          \* the number of __iter__ calls
    \* ---- NullSrcSink loopback: _verify_data
    vd_pc,              \* "idle", "new", "loop", "done"
    vd_data,            \* parameter rx_data
    vd_pos,             \* the number of words the for loop has taken
    vd_ret,             \* the pair returned, NoneVal before the return
    \* ---- NullSrcSink loopback: generate_data_and_stream_to_host
    null_pc,            \* position of the main thread
    null_idx,           \* index of the for loops of generate_data
    null_blocks,        \* number of source blocks
    thread_pc,          \* rx_thread: "new", "started", "recv", "done"
    thread_ret,         \* rx_thread._returncode
    null_num_rx,        \* num_rx of generate_data_and_stream_to_host
    flush_num_rx,       \* num_rx of rx_streamer_flush
    recv_active,        \* the threads inside rx_streamer.recv
    rx_pending,         \* samples waiting in the RX streamer
    streaming,          \* the source blocks that are streaming
    stream_cmds,        \* the stream commands issued: <<block, mode>>
    null_reads,         \* the counters main has read: <<block, counter>>
    \* ---- get_filenames
    fn_pc,              \* "idle", "called", "done"
    fn_filenames,       \* parameter filenames: a list of strings
    fn_channels,        \* parameter channels: a list of channel numbers
    fn_ret,             \* the list returned, NoneVal before the return
    fn_raised,          \* the exception raised, "none" otherwise
    \* ---- wait_for_link_up and main around it, in both scripts
    gate_pc,            \* "idle", "configured", "wait", "sleep", "returned",
                        \* "connect", "commit", "stream", "counters",
                        \* "evaluate", "exit"
    gate_script,        \* "host" or "nullsrcsink"
    wl_timeout,         \* parameter timeout, in tenths of a second
    wl_dt,              \* local dt, in tenths of a second
    wl_polls,           \* history of the polls: <<dt, link status>>
    wl_ret,             \* the pair returned, <<>> before the return
    gate_ops,           \* what main did after the link check, in order
    gate_out,           \* the lines main printed about the link
    gate_exit           \* exit status of sys.exit, NoneVal otherwise

cfgVars == <<num_chans, buffer_size>>
rxVars == <<rx_pc, rx_num_samples, num_rx, reported_overflow, rx_buffer,
            rx_files, rx_out, rx_ret, rx_calls>>
txVars == <<tx_pc, tx_files, tx_fpos, tx_iterations, tx_iteration, tx_buffer,
            buffer_len_current, num_tx, num_tx_iteration, num_tx_current,
            tx_ret, tx_sent, tx_calls>>
cmpVars == <<cmp_pc, reference_file, received_file, ref_pos, rec_pos,
             num_samples_total, num_iterations, processed_samples,
             cmp_iteration, cmp_reference, cmp_received>>
hostVars == <<host_pc, link, host_num_tx, host_num_rx>>
nullVars == <<null_pc, null_idx, null_blocks, thread_pc, thread_ret,
              null_num_rx, flush_num_rx, recv_active, rx_pending, streaming,
              stream_cmds, null_reads>>
fnVars == <<fn_pc, fn_filenames, fn_channels, fn_ret, fn_raised>>
gateVars == <<gate_pc, gate_script, wl_timeout, wl_dt, wl_polls, wl_ret,
              gate_ops, gate_out, gate_exit>>
mainVars == <<errors, main_out, main_idx, exit_code, main_raised>>
genVars == <<gen_mask, gen_iteration, gen_line, gen_hi, gen_lo, gen_retval,
             gen_words, gen_iters>>
vdVars == <<vd_pc, vd_data, vd_pos, vd_ret>>
vars == <<cfgVars, rxVars, txVars, cmpVars, hostVars, nullVars, mainVars,
          genVars, vdVars, fnVars, gateVars>>

\* what the actions of one unit leave alone
besidesRx == <<fnVars, gateVars, genVars, vdVars, cfgVars, txVars, cmpVars, hostVars, nullVars, mainVars>>
besidesTx == <<fnVars, gateVars, genVars, vdVars, cfgVars, rxVars, cmpVars, hostVars, nullVars, mainVars>>
besidesCmp == <<fnVars, gateVars, genVars, vdVars, cfgVars, rxVars, txVars, hostVars, nullVars, mainVars>>
besidesNull == <<fnVars, gateVars, genVars, vdVars, cfgVars, rxVars, txVars, cmpVars, hostVars, mainVars>>
besidesHost == <<fnVars, gateVars, genVars, vdVars, cfgVars, cmpVars, nullVars, mainVars>>
besidesMain == <<fnVars, gateVars, cfgVars, rxVars, txVars, nullVars, genVars, vdVars, link,
                 host_num_tx, host_num_rx>>
besidesGen == <<fnVars, gateVars, cfgVars, rxVars, txVars, cmpVars, hostVars, nullVars,
                mainVars, vdVars>>
besidesVd == <<fnVars, gateVars, cfgVars, rxVars, txVars, cmpVars, hostVars, nullVars,
               mainVars>>
besidesFn == <<gateVars, cfgVars, rxVars, txVars, cmpVars, hostVars, nullVars,
               mainVars, genVars, vdVars>>
besidesGate == <<fnVars, cfgVars, rxVars, txVars, cmpVars, hostVars,
                 nullVars, mainVars, genVars, vdVars>>

Chans == 1..num_chans

Min(a, b) == IF a < b THEN a ELSE b

\* the first n samples of seq, all of seq when it is shorter
Take(seq, n) == SubSeq(seq, 1, Min(n, Len(seq)))

\* seq repeated k times
RECURSIVE Repeat(_, _)
Repeat(seq, k) == IF k = 0 THEN <<>> ELSE seq \o Repeat(seq, k - 1)

RECURSIVE SumReceived(_)
SumReceived(calls) ==
    IF calls = <<>> THEN 0
    ELSE calls[1][1] + SumReceived(Tail(calls))

(***************************************************************************)
(* NullSrcSinkReferenceData                                                *)
(***************************************************************************)
\* An np.uint32 is kept as the pair of its 16-bit halves <<upper, lower>>,
\* its value being upper * 2^16 + lower.
Half == 65536

\* 0x00010000, 0x00000001, 0xFFFF0000 and 0x0000FFFF
HiStep == <<1, 0>>
LoStep == <<0, 1>>
HiMask == <<65535, 0>>
LoMask == <<0, 65535>>

\* np.uint32(0x00000000) and np.uint32(0x0000FFFF)
HiStart == <<0, 0>>
LoStart == <<0, 65535>>

\* a & b and a | b of two non-negative integers
RECURSIVE BitAnd(_, _)
BitAnd(a, b) ==
    IF a = 0 \/ b = 0 THEN 0
    ELSE (a % 2) * (b % 2) + 2 * BitAnd(a \div 2, b \div 2)

RECURSIVE BitOr(_, _)
BitOr(a, b) ==
    IF a = 0 THEN b
    ELSE IF b = 0 THEN a
    ELSE (IF a % 2 = 1 \/ b % 2 = 1 THEN 1 ELSE 0)
         + 2 * BitOr(a \div 2, b \div 2)

\* x & m of Python integers, x >= 0: every bit of -1 is set
AndInt(x, m) == IF m = -1 THEN x ELSE BitAnd(x, m)

\* x + y and x - y in 32 bits: the carry out of the upper half is lost
Add32(x, y) ==
    LET lower == x[2] + y[2]
    IN  <<(x[1] + y[1] + (lower \div Half)) % Half, lower % Half>>

Sub32(x, y) ==
    LET lower == x[2] - y[2]
    IN  <<(x[1] - y[1] - (IF lower < 0 THEN 1 ELSE 0)) % Half, lower % Half>>

\* x & y and x | y in 32 bits
And32(x, y) == <<BitAnd(x[1], y[1]), BitAnd(x[2], y[2])>>

Or32(x, y) == <<BitOr(x[1], y[1]), BitOr(x[2], y[2])>>

\* no object exists
GenIdle ==
    /\ gen_mask = <<>>
    /\ gen_iteration = <<>>
    /\ gen_line = <<>>
    /\ gen_hi = <<>>
    /\ gen_lo = <<>>
    /\ gen_retval = <<>>
    /\ gen_words = <<>>
    /\ gen_iters = <<>>

\* the objects NullSrcSinkReferenceData(words_per_line[g]) after __init__:
\* only self.mask is set
GenConstructed(words_per_line) ==
    /\ gen_mask = [g \in DOMAIN words_per_line |-> words_per_line[g] - 1]
    /\ gen_iteration = [g \in DOMAIN words_per_line |-> NoneVal]
    /\ gen_line = [g \in DOMAIN words_per_line |-> NoneVal]
    /\ gen_hi = [g \in DOMAIN words_per_line |-> NoneVal]
    /\ gen_lo = [g \in DOMAIN words_per_line |-> NoneVal]
    /\ gen_retval = [g \in DOMAIN words_per_line |-> NoneVal]
    /\ gen_words = [g \in DOMAIN words_per_line |-> <<>>]
    /\ gen_iters = [g \in DOMAIN words_per_line |-> 0]

\* __iter__ that sets self.line only when it is called first
GenIterKeepsLine(g) ==
    /\ gen_iteration' = [gen_iteration EXCEPT ![g] = 0]
    /\ gen_line' = [gen_line EXCEPT ![g] = IF @ = NoneVal THEN 0 ELSE @]
    /\ gen_hi' = [gen_hi EXCEPT ![g] = HiStart]
    /\ gen_lo' = [gen_lo EXCEPT ![g] = LoStart]
    /\ UNCHANGED <<gen_mask, gen_retval>>

\* __iter__
GenIter(g) ==
    /\ gen_iteration' = [gen_iteration EXCEPT ![g] = 0]
    /\ gen_line' = [gen_line EXCEPT ![g] = 0]
    /\ gen_hi' = [gen_hi EXCEPT ![g] = HiStart]
    /\ gen_lo' = [gen_lo EXCEPT ![g] = LoStart]
    /\ UNCHANGED <<gen_mask, gen_retval>>

\* the line change on the first word of a line
GenLineChangeAtFirst(g) == AndInt(gen_iteration[g], gen_mask[g]) = 0

\* (self.iteration & self.mask) == self.mask
GenLineChange(g) == AndInt(gen_iteration[g], gen_mask[g]) = gen_mask[g]

\* self.hi += 0x00010000; self.hi &= 0xFFFF0000
AdvanceHi(hi) == And32(Add32(hi, HiStep), HiMask)

\* self.lo -= 0x00000001 without the mask
AdvanceLoUnmasked(lo) == Sub32(lo, LoStep)

\* self.lo -= 0x00000001; self.lo &= 0x0000FFFF
AdvanceLo(lo) == And32(Sub32(lo, LoStep), LoMask)

\* the value __next__ of object g returns
GenWord(g) == Or32(gen_hi[g], gen_lo[g])

\* __next__ of an object that was iterated
GenNext(g) ==
    /\ gen_iteration[g] # NoneVal
    /\ gen_retval' = [gen_retval EXCEPT ![g] = GenWord(g)]
    /\ IF GenLineChange(g)
         THEN /\ gen_line' = [gen_line EXCEPT ![g] = @ + 1]
              /\ gen_hi' = [gen_hi EXCEPT ![g] = AdvanceHi(@)]
              /\ gen_lo' = [gen_lo EXCEPT ![g] = AdvanceLo(@)]
         ELSE UNCHANGED <<gen_line, gen_hi, gen_lo>>
    /\ gen_iteration' = [gen_iteration EXCEPT ![g] = @ + 1]
    /\ UNCHANGED gen_mask

(***************************************************************************)
(* _verify_data of the NullSrcSink loopback                                *)
(***************************************************************************)
VdIdle ==
    /\ vd_pc = "idle"
    /\ vd_data = <<>>
    /\ vd_pos = 0
    /\ vd_ret = NoneVal

\* the call _verify_data(rx_data) after
\* NullSrcSinkReferenceData(words_per_line=2) was constructed
VdEntry(rx_data) ==
    /\ vd_pc = "new"
    /\ vd_data = rx_data
    /\ vd_pos = 0
    /\ vd_ret = NoneVal
    /\ GenConstructed([g \in {1} |-> 2])

\* null_ref = iter(...)
VdIter ==
    /\ vd_pc = "new"
    /\ GenIter(1)
    /\ vd_pc' = "loop"
    /\ UNCHANGED <<vd_data, vd_pos, vd_ret>>

\* the message of a mismatch: null_ref.line as it is after next(null_ref),
\* the reference word and the received word
VdMessage(reference, dat) ==
    <<"mismatch in line", gen_line'[1], reference, dat>>

\* one pass of `for dat in rx_data`
VdLoopBody ==
    /\ vd_pc = "loop"
    /\ vd_pos < Len(vd_data)
    /\ GenNext(1)
    /\ vd_pos' = vd_pos + 1
    /\ LET dat == vd_data[vd_pos + 1]
           reference == GenWord(1)
       IN  IF dat # reference
             THEN /\ vd_ret' = <<FALSE, VdMessage(reference, dat)>>
                  /\ vd_pc' = "done"
             ELSE UNCHANGED <<vd_ret, vd_pc>>
    /\ UNCHANGED vd_data

\* the for loop is exhausted: return True, ""
VdReturn ==
    /\ vd_pc = "loop"
    /\ vd_pos = Len(vd_data)
    /\ vd_ret' = <<TRUE, "">>
    /\ vd_pc' = "done"
    /\ UNCHANGED <<vd_data, vd_pos, genVars>>

(***************************************************************************)
(* rx_function                                                             *)
(***************************************************************************)
RxIdle ==
    /\ rx_pc = "idle"
    /\ rx_num_samples = 0
    /\ num_rx = 0
    /\ reported_overflow = FALSE
    /\ rx_buffer = <<>>
    /\ rx_files = <<>>
    /\ rx_out = <<>>
    /\ rx_ret = NoneVal
    /\ rx_calls = <<>>

\* the state of an rx_function call at position pc before its first step:
\* num_rx = 0, reported_overflow = False; the sinks were opened "wb" (empty)
\* and rx_buffer is np.zeros
RxCall(pc, target) ==
    /\ rx_pc = pc
    /\ rx_num_samples = target
    /\ num_rx = 0
    /\ reported_overflow = FALSE
    /\ rx_buffer = [idx \in Chans |-> [i \in 1..buffer_size |-> 0]]
    /\ rx_files = [idx \in Chans |-> <<>>]
    /\ rx_out = <<>>
    /\ rx_ret = NoneVal
    /\ rx_calls = <<>>

\* entry of rx_function
RxEntry(target) == RxCall("loop", target)

\* what one recv call can do: it fills the first `received` samples of
\* every channel of the buffer and sets rx_md.error_code.  A call that
\* reports no error delivers at least one sample.
RecvOutcome(received, err, oos, data) ==
    /\ received \in 0..buffer_size
    /\ err \in ErrorCodes
    /\ oos \in BOOLEAN
    /\ err = "none" => received >= 1
    /\ oos => err = "overflow"
    /\ DOMAIN data = Chans
    /\ \A idx \in Chans : Len(data[idx]) = received

\* the lines printed after one recv call
RxPrinted(err, oos) ==
    IF err = "timeout" THEN <<"RX timeout">>
    ELSE (IF err = "overflow" /\ ~reported_overflow
            THEN <<IF oos THEN "Got an out-of-sequence indication."
                          ELSE "Got an overflow indication.">>
            ELSE <<>>)
         \o (IF err # "none" THEN <<"Got an error indication">> ELSE <<>>)

\* rx_function without the return after "Got an error indication"
RxReturnsOnTimeoutOnly(err) == err = "timeout"

\* whether rx_function returns after a recv call with this error code
RxReturnsOn(err) == err = "timeout" \/ err # "none"

\* the loop condition written with <=
RxContinuesInclusive == num_rx <= rx_num_samples

\* the condition of rx_function's while loop
RxContinues == num_rx < rx_num_samples

\* the whole buffer of a channel written to its file
RxWrittenWhole(buffer, received) == buffer

\* rx_buffer[idx, :received], the samples written to the file of a channel
RxWritten(buffer, received) == SubSeq(buffer, 1, received)

\* one pass through the body of `while num_rx < num_samples`
RxLoopBody(received, err, oos, data) ==
    /\ rx_pc = "loop"
    /\ RxContinues
    /\ num_rx' = num_rx + received
    /\ rx_buffer' = [idx \in Chans |->
                       [i \in 1..buffer_size |->
                          IF i <= received THEN data[idx][i]
                                           ELSE rx_buffer[idx][i]]]
    /\ rx_files' = [idx \in Chans |->
                      rx_files[idx] \o RxWritten(rx_buffer'[idx], received)]
    /\ rx_out' = rx_out \o RxPrinted(err, oos)
    /\ reported_overflow' = (reported_overflow \/ err = "overflow")
    /\ IF RxReturnsOn(err)
         THEN rx_pc' = "done" /\ rx_ret' = num_rx'
         ELSE rx_pc' = "loop" /\ rx_ret' = rx_ret
    /\ UNCHANGED rx_num_samples

\* the loop condition fails: return num_rx
RxReturn ==
    /\ rx_pc = "loop"
    /\ ~RxContinues
    /\ rx_pc' = "done"
    /\ rx_ret' = num_rx
    /\ UNCHANGED <<rx_num_samples, num_rx, reported_overflow, rx_buffer,
                   rx_files, rx_out>>

(***************************************************************************)
(* tx_function                                                             *)
(***************************************************************************)
TxIdle ==
    /\ tx_pc = "idle"
    /\ tx_files = <<>>
    /\ tx_fpos = <<>>
    /\ tx_iterations = 0
    /\ tx_iteration = 0
    /\ tx_buffer = <<>>
    /\ buffer_len_current = 0
    /\ num_tx = 0
    /\ num_tx_iteration = 0
    /\ num_tx_current = 0
    /\ tx_ret = NoneVal
    /\ tx_sent = <<>>
    /\ tx_calls = <<>>

\* the state of a tx_function call at position pc before its first step:
\* num_tx = 0, iteration = 0; the sources were opened "rb" (position 0) and
\* tx_buffer is np.zeros
TxCall(pc, files, iterations) ==
    /\ tx_pc = pc
    /\ tx_files = files
    /\ tx_fpos = [idx \in Chans |-> 0]
    /\ tx_iterations = iterations
    /\ tx_iteration = 0
    /\ tx_buffer = [idx \in Chans |-> [i \in 1..buffer_size |-> 0]]
    /\ buffer_len_current = 0
    /\ num_tx = 0
    /\ num_tx_iteration = 0
    /\ num_tx_current = 0
    /\ tx_ret = NoneVal
    /\ tx_sent = [idx \in Chans |-> <<>>]
    /\ tx_calls = <<>>

\* entry of tx_function
TxEntry(files, iterations) == TxCall("iter", files, iterations)

\* `while iteration < iterations:` holds: num_tx_iteration = 0 and every
\* source is rewound
TxIterStart ==
    /\ tx_pc = "iter"
    /\ tx_iteration < tx_iterations
    /\ num_tx_iteration' = 0
    /\ tx_fpos' = [idx \in Chans |-> 0]
    /\ tx_pc' = "read"
    /\ UNCHANGED <<tx_files, tx_iterations, tx_iteration, tx_buffer,
                   buffer_len_current, num_tx, num_tx_current, tx_ret>>

\* `while iteration < iterations:` fails: return num_tx
TxReturn ==
    /\ tx_pc = "iter"
    /\ ~(tx_iteration < tx_iterations)
    /\ tx_pc' = "done"
    /\ tx_ret' = num_tx
    /\ UNCHANGED <<tx_files, tx_fpos, tx_iterations, tx_iteration, tx_buffer,
                   buffer_len_current, num_tx, num_tx_iteration,
                   num_tx_current>>

\* len(np.fromfile(files[idx], count=buffer_size))
TxReadLen(idx) == Min(buffer_size, Len(tx_files[idx]) - tx_fpos[idx])

\* np.fromfile(files[idx], count=buffer_size)
TxReadData(idx) ==
    SubSeq(tx_files[idx], tx_fpos[idx] + 1, tx_fpos[idx] + TxReadLen(idx))

\* the assertion written as `assert len(buffer) >= buffer_len_current`
TxAssertFailsWhenShorter ==
    LET bad == {idx \in Chans : idx > 1 /\ TxReadLen(idx) < TxReadLen(1)}
    IN  IF bad = {} THEN 0
        ELSE CHOOSE idx \in bad : \A other \in bad : idx <= other

\* the first channel whose read fails `assert len(buffer) ==
\* buffer_len_current`, 0 when the assertion holds for every channel
TxAssertFails ==
    LET bad == {idx \in Chans : idx > 1 /\ TxReadLen(idx) # TxReadLen(1)}
    IN  IF bad = {} THEN 0
        ELSE CHOOSE idx \in bad : \A other \in bad : idx <= other

\* `for idx in range(num_chans)` at the head of `while True:`, followed by
\* `if buffer_len_current == 0`
TxReadChunk ==
    /\ tx_pc = "read"
    /\ LET fail == TxAssertFails
           len == TxReadLen(1)
       IN  /\ tx_fpos' = [idx \in Chans |->
                            IF fail = 0 \/ idx <= fail
                              THEN tx_fpos[idx] + TxReadLen(idx)
                              ELSE tx_fpos[idx]]
           /\ tx_buffer' = [idx \in Chans |->
                              IF fail = 0 \/ idx < fail
                                THEN [i \in 1..buffer_size |->
                                        IF i <= len THEN TxReadData(idx)[i]
                                                    ELSE tx_buffer[idx][i]]
                                ELSE tx_buffer[idx]]
           /\ buffer_len_current' = len
           /\ IF fail # 0
                THEN /\ tx_pc' = "raised"
                     /\ UNCHANGED <<tx_iteration, num_tx_current>>
                ELSE IF len = 0
                  THEN /\ tx_iteration' = tx_iteration + 1
                       /\ tx_pc' = "iter"
                       /\ UNCHANGED num_tx_current
                  ELSE /\ num_tx_current' = 0
                       /\ tx_pc' = "send"
                       /\ UNCHANGED tx_iteration
    /\ UNCHANGED <<tx_files, tx_iterations, num_tx, num_tx_iteration, tx_ret>>

\* the number of samples one send call is asked to transmit:
\* tx_buffer[:, num_tx_current:buffer_len_current]
TxRequested == buffer_len_current - num_tx_current

\* send called with tx_buffer[:, :buffer_len_current]: a partial send is
\* followed by a send from the start of the chunk
TxAcceptedFromStart(idx, transmitted) == SubSeq(tx_buffer[idx], 1, transmitted)

\* the samples of channel idx the transport takes when it accepts
\* `transmitted` samples of that slice
TxAccepted(idx, transmitted) ==
    SubSeq(tx_buffer[idx], num_tx_current + 1, num_tx_current + transmitted)

\* the loop body with `num_tx += buffer_len_current - num_tx_current`
TxSendBodyCountsRequested(transmitted) ==
    /\ tx_pc = "send"
    /\ num_tx_current < buffer_len_current
    /\ num_tx_current' = num_tx_current + transmitted
    /\ num_tx_iteration' = num_tx_iteration + transmitted
    /\ num_tx' = num_tx + (buffer_len_current - num_tx_current)
    /\ tx_pc' = IF num_tx_current' < buffer_len_current THEN "send" ELSE "read"
    /\ UNCHANGED <<tx_files, tx_fpos, tx_iterations, tx_iteration, tx_buffer,
                   buffer_len_current, tx_ret>>

\* one pass through the body of `while num_tx_current < buffer_len_current:`
TxSendBody(transmitted) ==
    /\ tx_pc = "send"
    /\ num_tx_current < buffer_len_current
    /\ num_tx_current' = num_tx_current + transmitted
    /\ num_tx_iteration' = num_tx_iteration + transmitted
    /\ num_tx' = num_tx + transmitted
    /\ tx_pc' = IF num_tx_current' < buffer_len_current THEN "send" ELSE "read"
    /\ UNCHANGED <<tx_files, tx_fpos, tx_iterations, tx_iteration, tx_buffer,
                   buffer_len_current, tx_ret>>

\* the history of the send calls kept next to the code's own state
TxRecordSend(transmitted) ==
    /\ tx_sent' = [idx \in Chans |->
                     tx_sent[idx] \o TxAccepted(idx, transmitted)]
    /\ tx_calls' = Append(tx_calls, <<TxRequested, transmitted>>)

(***************************************************************************)
(* compare                                                                 *)
(***************************************************************************)
CmpIdle ==
    /\ cmp_pc = "idle"
    /\ reference_file = <<>>
    /\ received_file = <<>>
    /\ ref_pos = 0
    /\ rec_pos = 0
    /\ num_samples_total = 0
    /\ num_iterations = 0
    /\ processed_samples = 0
    /\ cmp_iteration = 0
    /\ cmp_reference = <<>>
    /\ cmp_received = <<>>

\* entry of compare: processed_samples = 0, iteration = 0; both files were
\* opened "rb" (position 0)
CmpEntry(reference, received, total, iterations) ==
    /\ cmp_pc = "loop"
    /\ reference_file = reference
    /\ received_file = received
    /\ ref_pos = 0
    /\ rec_pos = 0
    /\ num_samples_total = total
    /\ num_iterations = iterations
    /\ processed_samples = 0
    /\ cmp_iteration = 0
    /\ cmp_reference = <<>>
    /\ cmp_received = <<>>

\* np.fromfile(file, count=buffer_size) at position pos
FromFile(file, pos) == SubSeq(file, pos + 1, Min(Len(file), pos + buffer_size))

\* a rewind that is not counted
CmpRewoundUncounted == cmp_iteration

\* iteration += 1 after reference_file.seek(0)
CmpRewound == cmp_iteration + 1

\* whether compare may rewind the reference file once more
CmpMayRewind == cmp_iteration < num_iterations

\* the loop condition written with <=
CmpContinuesInclusive == processed_samples <= num_samples_total

\* the condition of compare's while loop
CmpContinues == processed_samples < num_samples_total

\* equality of two chunks decided by their lengths alone
ArrayEqualLengthOnly(a, b) == Len(a) = Len(b)

\* np.array_equal(a, b): same shape and same elements
ArrayEqual(a, b) == Len(a) = Len(b) /\ \A i \in 1..Len(a) : a[i] = b[i]

\* one pass through the body of `while processed_samples < num_samples_total`
CmpLoopBody ==
    /\ cmp_pc = "loop"
    /\ CmpContinues
    /\ LET reference == FromFile(reference_file, ref_pos)
           received == FromFile(received_file, rec_pos)
       IN  IF Len(reference) = 0
             THEN /\ cmp_reference' = reference
                  /\ IF CmpMayRewind
                       THEN /\ ref_pos' = 0
                            /\ cmp_iteration' = CmpRewound
                            /\ cmp_pc' = "loop"
                       ELSE /\ cmp_pc' = "eof_reference"
                            /\ UNCHANGED <<ref_pos, cmp_iteration>>
                  /\ UNCHANGED <<rec_pos, cmp_received, processed_samples>>
             ELSE /\ cmp_reference' = reference
                  /\ cmp_received' = received
                  /\ ref_pos' = ref_pos + Len(reference)
                  /\ rec_pos' = rec_pos + Len(received)
                  /\ UNCHANGED cmp_iteration
                  /\ IF Len(received) = 0
                       THEN cmp_pc' = "eof_received"
                              /\ UNCHANGED processed_samples
                       ELSE IF ~ArrayEqual(reference, received)
                         THEN cmp_pc' = "mismatch"
                                /\ UNCHANGED processed_samples
                         ELSE /\ cmp_pc' = "loop"
                              /\ processed_samples' =
                                   processed_samples + Len(reference)
    /\ UNCHANGED <<reference_file, received_file, num_samples_total,
                   num_iterations>>

\* the loop condition fails: compare returns without raising
CmpReturn ==
    /\ cmp_pc = "loop"
    /\ ~CmpContinues
    /\ cmp_pc' = "ok"
    /\ UNCHANGED <<reference_file, received_file, ref_pos, rec_pos,
                   num_samples_total, num_iterations, processed_samples,
                   cmp_iteration, cmp_reference, cmp_received>>

(***************************************************************************)
(* The RX streamer of the NullSrcSink loopback, rx_streamer_flush,         *)
(* generate_data and generate_data_and_stream_to_host                      *)
(***************************************************************************)
HostIdle ==
    /\ host_pc = "idle"
    /\ link = <<>>
    /\ host_num_tx = NoneVal
    /\ host_num_rx = NoneVal

\* main before line 426: no list of errors yet, nothing printed
MainIdle ==
    /\ errors = <<>>
    /\ main_out = <<>>
    /\ main_idx = 0
    /\ exit_code = NoneVal
    /\ main_raised = "none"

FnIdle ==
    /\ fn_pc = "idle"
    /\ fn_filenames = <<>>
    /\ fn_channels = <<>>
    /\ fn_ret = NoneVal
    /\ fn_raised = "none"

GateIdle ==
    /\ gate_pc = "idle"
    /\ gate_script = "none"
    /\ wl_timeout = 0
    /\ wl_dt = 0
    /\ wl_polls = <<>>
    /\ wl_ret = <<>>
    /\ gate_ops = <<>>
    /\ gate_out = <<>>
    /\ gate_exit = NoneVal

NullIdle ==
    /\ null_pc = "idle"
    /\ null_idx = 0
    /\ null_blocks = 0
    /\ thread_pc = "new"
    /\ thread_ret = NoneVal
    /\ null_num_rx = NoneVal
    /\ flush_num_rx = NoneVal
    /\ recv_active = {}
    /\ rx_pending = 0
    /\ streaming = {}
    /\ stream_cmds = <<>>
    /\ null_reads = <<>>

\* entry of generate_data_and_stream_to_host; `stale` samples of an earlier
\* run wait in the streamer
NullEntry(blocks, stale) ==
    /\ null_pc = "start_thread"
    /\ null_idx = 0
    /\ null_blocks = blocks
    /\ thread_pc = "new"
    /\ thread_ret = NoneVal
    /\ null_num_rx = NoneVal
    /\ flush_num_rx = NoneVal
    /\ recv_active = {}
    /\ rx_pending = stale
    /\ streaming = {}
    /\ stream_cmds = <<>>
    /\ null_reads = <<>>

\* main calls generate_data itself: the sink is on the FPGA, there is no RX
\* streamer and no rx_thread
NullEntryFpga(blocks) ==
    /\ null_pc = "gen_start"
    /\ null_idx = 1
    /\ null_blocks = blocks
    /\ thread_pc = "none"
    /\ thread_ret = NoneVal
    /\ null_num_rx = NoneVal
    /\ flush_num_rx = NoneVal
    /\ recv_active = {}
    /\ rx_pending = 0
    /\ streaming = {}
    /\ stream_cmds = <<>>
    /\ null_reads = <<>>

\* a thread enters rx_streamer.recv
RecvEnter(thread) == recv_active' = recv_active \cup {thread}

\* rx_streamer.recv returns n of the waiting samples to a thread
RecvLeave(thread, n) ==
    /\ thread \in recv_active
    /\ n \in 0..rx_pending
    /\ recv_active' = recv_active \ {thread}
    /\ rx_pending' = rx_pending - n

\* rx_thread.start(): the thread exists when start returns; main goes on to
\* the first rx_streamer_flush, where num_rx = None
NullStartThread ==
    /\ null_pc = "start_thread"
    /\ thread_pc' = "started"
    /\ null_pc' = "flush1"
    /\ flush_num_rx' = NoneVal
    /\ UNCHANGED <<null_idx, null_blocks, thread_ret, null_num_rx,
                   recv_active, rx_pending, streaming, stream_cmds, null_reads>>

\* ThreadWithReturnValue.run calls the target, rx_streamer.recv
ThreadRecvCall ==
    /\ thread_pc = "started"
    /\ thread_pc' = "recv"
    /\ RecvEnter("rx_thread")
    /\ UNCHANGED <<null_pc, null_idx, null_blocks, thread_ret, null_num_rx,
                   flush_num_rx, rx_pending, streaming, stream_cmds, null_reads>>

\* the target returns; run stores its value in _returncode
ThreadRecvReturn(n) ==
    /\ thread_pc = "recv"
    /\ RecvLeave("rx_thread", n)
    /\ thread_ret' = n
    /\ thread_pc' = "done"
    /\ UNCHANGED <<null_pc, null_idx, null_blocks, null_num_rx, flush_num_rx,
                   streaming, stream_cmds, null_reads>>

\* the position of main after the rx_streamer_flush it is in
AfterFlush(pc) == IF pc = "flush1" THEN "gen_start" ELSE "return"

\* rx_streamer_flush: `while num_rx != 0:` holds and recv is called
FlushRecvCall ==
    /\ null_pc \in {"flush1", "flush2"}
    /\ flush_num_rx # 0
    /\ null_pc' = IF null_pc = "flush1" THEN "flush1_recv" ELSE "flush2_recv"
    /\ RecvEnter("main")
    /\ UNCHANGED <<null_idx, null_blocks, thread_pc, thread_ret, null_num_rx,
                   flush_num_rx, rx_pending, streaming, stream_cmds, null_reads>>

\* rx_streamer_flush: recv returns num_rx
FlushRecvReturn(n) ==
    /\ null_pc \in {"flush1_recv", "flush2_recv"}
    /\ RecvLeave("main", n)
    /\ flush_num_rx' = n
    /\ null_pc' = IF null_pc = "flush1_recv" THEN "flush1" ELSE "flush2"
    /\ UNCHANGED <<null_idx, null_blocks, thread_pc, thread_ret, null_num_rx,
                   streaming, stream_cmds, null_reads>>

\* rx_streamer_flush: `while num_rx != 0:` fails and the function returns
FlushReturn ==
    /\ null_pc \in {"flush1", "flush2"}
    /\ flush_num_rx = 0
    /\ null_pc' = AfterFlush(null_pc)
    /\ null_idx' = 1
    /\ UNCHANGED <<null_blocks, thread_pc, thread_ret, null_num_rx,
                   flush_num_rx, recv_active, rx_pending, streaming,
                   stream_cmds, null_reads>>

\* generate_data: the first for loop issues start_cont to one block, and
\* after the last block main sleeps
GenerateStart ==
    /\ null_pc = "gen_start"
    /\ null_idx <= null_blocks
    /\ stream_cmds' = Append(stream_cmds, <<null_idx, "start_cont">>)
    /\ streaming' = streaming \cup {null_idx}
    /\ IF null_idx = null_blocks
         THEN null_pc' = "gen_sleep" /\ null_idx' = 1
         ELSE null_pc' = "gen_start" /\ null_idx' = null_idx + 1
    /\ UNCHANGED <<null_blocks, thread_pc, thread_ret, null_num_rx,
                   flush_num_rx, recv_active, rx_pending, null_reads>>

\* generate_data: time.sleep(duration) is over
GenerateSleep ==
    /\ null_pc = "gen_sleep"
    /\ null_pc' = "gen_stop"
    /\ UNCHANGED <<null_idx, null_blocks, thread_pc, thread_ret, null_num_rx,
                   flush_num_rx, recv_active, rx_pending, streaming,
                   stream_cmds, null_reads>>

\* the position of main after generate_data: rx_thread.join() in
\* generate_data_and_stream_to_host, step 9 of main when the sink is on the
\* FPGA and there is no rx_thread
AfterGenerate == IF thread_pc = "none" THEN "done" ELSE "join"

\* a second for loop that ends after its first pass
GenerateStopFirstOnly ==
    /\ null_pc = "gen_stop"
    /\ null_idx <= null_blocks
    /\ stream_cmds' = Append(stream_cmds, <<null_idx, "stop_cont">>)
    /\ streaming' = streaming \ {null_idx}
    /\ null_pc' = AfterGenerate
    /\ null_idx' = 1
    /\ UNCHANGED <<null_blocks, thread_pc, thread_ret, null_num_rx,
                   flush_num_rx, recv_active, rx_pending, null_reads>>

\* generate_data: the second for loop issues stop_cont to one block
GenerateStop ==
    /\ null_pc = "gen_stop"
    /\ null_idx <= null_blocks
    /\ stream_cmds' = Append(stream_cmds, <<null_idx, "stop_cont">>)
    /\ streaming' = streaming \ {null_idx}
    /\ IF null_idx = null_blocks
         THEN null_pc' = AfterGenerate /\ null_idx' = 1
         ELSE null_pc' = "gen_stop" /\ null_idx' = null_idx + 1
    /\ UNCHANGED <<null_blocks, thread_pc, thread_ret, null_num_rx,
                   flush_num_rx, recv_active, rx_pending, null_reads>>

\* a streaming source block delivers one more sample to the RX streamer
BlockProduces ==
    /\ streaming # {}
    /\ rx_pending < MaxPending
    /\ rx_pending' = rx_pending + 1
    /\ UNCHANGED <<null_pc, null_idx, null_blocks, thread_pc, thread_ret,
                   null_num_rx, flush_num_rx, recv_active, streaming,
                   stream_cmds, null_reads>>

\* num_rx = rx_thread.join(): returns _returncode once the thread has ended;
\* main goes on to the second rx_streamer_flush
NullJoin ==
    /\ null_pc = "join"
    /\ thread_pc = "done"
    /\ null_num_rx' = thread_ret
    /\ null_pc' = "flush2"
    /\ flush_num_rx' = NoneVal
    /\ UNCHANGED <<null_idx, null_blocks, thread_pc, thread_ret, recv_active,
                   rx_pending, streaming, stream_cmds, null_reads>>

\* return num_rx
NullReturn ==
    /\ null_pc = "return"
    /\ null_pc' = "done"
    /\ UNCHANGED <<null_idx, null_blocks, thread_pc, thread_ret, null_num_rx,
                   flush_num_rx, recv_active, rx_pending, streaming,
                   stream_cmds, null_reads>>

\* step 9 of main, one pass of the loop over the source blocks:
\* print_null_statistics and the get_count calls read the counters of the
\* block
NullReadSource ==
    /\ null_pc = "done"
    /\ null_idx <= null_blocks
    /\ null_reads' = Append(null_reads, <<null_idx, "source">>)
    /\ IF null_idx = null_blocks
         THEN null_pc' = "aurora_counters" /\ null_idx' = 1
         ELSE null_pc' = "done" /\ null_idx' = null_idx + 1
    /\ UNCHANGED <<null_blocks, thread_pc, thread_ret, null_num_rx,
                   flush_num_rx, recv_active, rx_pending, streaming,
                   stream_cmds>>

\* step 9 of main: the four counters of the Aurora block are read unless
\* aurora_block is None (--no-aurora)
NullReadAurora(aurora_block) ==
    /\ null_pc = "aurora_counters"
    /\ null_reads' = IF aurora_block
                       THEN Append(null_reads, <<0, "aurora">>)
                       ELSE null_reads
    /\ null_pc' = "evaluate"
    /\ UNCHANGED <<null_idx, null_blocks, thread_pc, thread_ret, null_num_rx,
                   flush_num_rx, recv_active, rx_pending, streaming,
                   stream_cmds>>

(***************************************************************************)
(* main of the host loopback: rx_streamer_flush, the two pump threads and  *)
(* the joins                                                               *)
(***************************************************************************)
\* seq without its first n samples
Drop(seq, n) == SubSeq(seq, n + 1, Len(seq))

\* the samples waiting between the TX streamer and the RX streamer
LinkLen == Len(link[1])

\* main after graph.commit(): `stale` samples wait in the RX streamer, the
\* files are opened and both ThreadWithReturnValue objects get their args:
\* num_samples is the size of the first input file
HostEntry(files, iterations, stale) ==
    /\ host_pc = "flush"
    /\ link = [idx \in Chans |-> [i \in 1..stale |-> 0]]
    /\ host_num_tx = NoneVal
    /\ host_num_rx = NoneVal
    /\ TxCall("idle", files, iterations)
    /\ RxCall("idle", Len(files[1]) * iterations)

\* one recv call of rx_streamer_flush(rx_streamer); the call that returns 0
\* ends the flush
HostFlushRecv(n) ==
    /\ host_pc = "flush"
    /\ n \in 0..LinkLen
    /\ link' = [idx \in Chans |-> Drop(link[idx], n)]
    /\ host_pc' = IF n = 0 THEN "start_rx" ELSE "flush"
    /\ UNCHANGED <<host_num_tx, host_num_rx, rxVars, txVars>>

\* rx_thread.start()
HostStartRx ==
    /\ host_pc = "start_rx"
    /\ host_pc' = "start_tx"
    /\ rx_pc' = "loop"
    /\ UNCHANGED <<link, host_num_tx, host_num_rx, txVars, rx_num_samples,
                   num_rx, reported_overflow, rx_buffer, rx_files, rx_out,
                   rx_ret, rx_calls>>

\* tx_thread.start()
HostStartTx ==
    /\ host_pc = "start_tx"
    /\ host_pc' = "join_tx"
    /\ tx_pc' = "iter"
    /\ UNCHANGED <<link, host_num_tx, host_num_rx, rxVars, tx_files, tx_fpos,
                   tx_iterations, tx_iteration, tx_buffer, buffer_len_current,
                   num_tx, num_tx_iteration, num_tx_current, tx_ret, tx_sent,
                   tx_calls>>

\* num_tx = tx_thread.join(): the thread has ended, by return or by the
\* assertion; join returns _returncode
HostJoinTx ==
    /\ host_pc = "join_tx"
    /\ tx_pc \in {"done", "raised"}
    /\ host_num_tx' = tx_ret
    /\ host_pc' = "join_rx"
    /\ UNCHANGED <<link, host_num_rx, rxVars, txVars>>

\* a join that returns while the thread is still running
HostJoinRxEarly ==
    /\ host_pc = "join_rx"
    /\ host_num_rx' = rx_ret
    /\ host_pc' = "joined"
    /\ UNCHANGED <<link, host_num_tx, rxVars, txVars>>

\* num_rx = rx_thread.join()
HostJoinRx ==
    /\ host_pc = "join_rx"
    /\ rx_pc = "done"
    /\ host_num_rx' = rx_ret
    /\ host_pc' = "joined"
    /\ UNCHANGED <<link, host_num_tx, rxVars, txVars>>

\* tx_streamer.send on the link: it accepts what fits, possibly nothing
LinkSend(transmitted) ==
    /\ transmitted \in 0..Min(TxRequested, MaxLink - LinkLen)
    /\ link' = [idx \in Chans |-> link[idx] \o TxAccepted(idx, transmitted)]

\* rx_streamer.recv on the link: it delivers waiting samples
LinkRecv(received) ==
    /\ received \in 0..Min(buffer_size, LinkLen)
    /\ link' = [idx \in Chans |-> Drop(link[idx], received)]

(***************************************************************************)
(* main of the host loopback after the joins: the checks of the thread     *)
(* results, the Aurora statistics, the verification loop and the exit      *)
(***************************************************************************)
\* values read from one Aurora counter
AuroraCounts == 0..1

\* an uncaught exception ends main: traceback on stderr, exit status 1
MainRaise(exception) ==
    /\ host_pc' = "exit"
    /\ main_raised' = exception
    /\ exit_code' = 1

\* a check of num_rx alone
MainAssertRxOnly ==
    /\ host_pc = "joined"
    /\ IF host_num_rx = NoneVal
         THEN MainRaise("AssertionError")
         ELSE /\ host_pc' = "stats"
              /\ UNCHANGED <<main_raised, exit_code>>
    /\ UNCHANGED <<errors, main_out, main_idx, cmpVars>>

\* assert num_tx is not None; assert num_rx is not None
MainAssertResults ==
    /\ host_pc = "joined"
    /\ IF host_num_tx = NoneVal \/ host_num_rx = NoneVal
         THEN MainRaise("AssertionError")
         ELSE /\ host_pc' = "stats"
              /\ UNCHANGED <<main_raised, exit_code>>
    /\ UNCHANGED <<errors, main_out, main_idx, cmpVars>>

\* the messages appended after the four counters of the Aurora block were
\* read
StatisticsErrors(tx_counter, rx_counter, overflow_counter, crc_errors) ==
    (IF tx_counter > rx_counter
       THEN <<<<"Packets got lost on Aurora link", tx_counter - rx_counter>>>>
       ELSE <<>>)
    \o (IF overflow_counter > 0
          THEN <<<<"Aurora block reported overflows", overflow_counter>>>>
          ELSE <<>>)
    \o (IF crc_errors > 0
          THEN <<<<"Aurora block reported CRC errors", crc_errors>>>>
          ELSE <<>>)

\* errors = [] and step 8, the check of the Aurora block statistics
MainStatistics(tx_counter, rx_counter, overflow_counter, crc_errors) ==
    /\ host_pc = "stats"
    /\ errors' = StatisticsErrors(tx_counter, rx_counter, overflow_counter,
                                  crc_errors)
    /\ main_idx' = 1
    /\ host_pc' = "verify"
    /\ UNCHANGED <<main_out, exit_code, main_raised, cmpVars>>

\* what a file holds when it is opened again by name after the capture:
\* the samples that were written, or only the first of them when the file
\* was cut short in between
OnDisk(written) == { Take(written, r) : r \in 0..Len(written) }

\* the call compare(in_file, out_file, num_rx, num_iterations=...)
MainCompareCall(reference, received, total, iterations) ==
    /\ cmp_pc' = "loop"
    /\ reference_file' = reference
    /\ received_file' = received
    /\ ref_pos' = 0
    /\ rec_pos' = 0
    /\ num_samples_total' = total
    /\ num_iterations' = iterations
    /\ processed_samples' = 0
    /\ cmp_iteration' = 0
    /\ cmp_reference' = <<>>
    /\ cmp_received' = <<>>

\* one pass of the verification loop up to the call of compare: both files
\* of the channel are opened "rb"
MainVerifyChannel(received) ==
    /\ host_pc = "verify"
    /\ main_idx <= num_chans
    /\ received \in OnDisk(rx_files[main_idx])
    /\ MainCompareCall(tx_files[main_idx], received, host_num_rx,
                       tx_iterations)
    /\ host_pc' = "compare"
    /\ UNCHANGED mainVars

\* str(error) of the AssertionError raised by compare
MismatchMessage ==
    <<"array mismatch", processed_samples, cmp_reference, cmp_received>>

\* whether the except clause of the verification loop catches what compare
\* raised: it names AssertionError
MainCatches == cmp_pc = "mismatch"

\* compare has ended: print("OK"), or the except clause, or the exception
\* leaves main
MainVerifyResult ==
    /\ host_pc = "compare"
    /\ cmp_pc \in {"ok", "mismatch", "eof_reference", "eof_received"}
    /\ IF cmp_pc = "ok"
         THEN /\ main_out' = Append(main_out, "OK")
              /\ main_idx' = main_idx + 1
              /\ host_pc' = "verify"
              /\ UNCHANGED <<errors, exit_code, main_raised>>
         ELSE IF MainCatches
           THEN /\ errors' = Append(errors, MismatchMessage)
                /\ main_idx' = main_idx + 1
                /\ host_pc' = "verify"
                /\ UNCHANGED <<main_out, exit_code, main_raised>>
           ELSE /\ MainRaise("EOFError")
                /\ UNCHANGED <<errors, main_out, main_idx>>
    /\ UNCHANGED cmpVars

\* the lines printed for the accumulated errors
RECURSIVE ErrorLines(_)
ErrorLines(errs) ==
    IF errs = <<>> THEN <<>>
    ELSE <<<<"ERROR: ", Head(errs)>>>> \o ErrorLines(Tail(errs))

\* after the verification loop: the ERROR lines and sys.exit(1), or PASS
MainReport ==
    /\ host_pc = "verify"
    /\ main_idx > num_chans
    /\ IF Len(errors) > 0
         THEN /\ main_out' = main_out \o ErrorLines(errors)
              /\ exit_code' = 1
         ELSE /\ main_out' = Append(main_out, "PASS")
              /\ exit_code' = 0
    /\ host_pc' = "exit"
    /\ UNCHANGED <<errors, main_idx, main_raised, cmpVars>>

(***************************************************************************)
(* wait_for_link_up and the steps of main around it; times are counted in  *)
(* tenths of a second, the length of one sleep                             *)
(***************************************************************************)
\* main has configured the Aurora block
GateEntry(script, timeout) ==
    /\ gate_pc = "configured"
    /\ gate_script = script
    /\ wl_timeout = timeout
    /\ wl_dt = 0
    /\ wl_polls = <<>>
    /\ wl_ret = <<>>
    /\ gate_ops = <<>>
    /\ gate_out = <<>>
    /\ gate_exit = NoneVal

\* main calls wait_for_link_up: start_time = time.time(); dt = 0.  The
\* NullSrcSink loopback skips the call when --no-aurora is given
GateEnter(no_aurora) ==
    /\ gate_pc = "configured"
    /\ no_aurora => gate_script = "nullsrcsink"
    /\ gate_pc' = IF no_aurora THEN "connect" ELSE "wait"
    /\ wl_dt' = 0
    /\ UNCHANGED <<gate_script, wl_timeout, wl_polls, wl_ret, gate_ops,
                   gate_out, gate_exit>>

\* `while dt < timeout:` holds and get_link_status() returns status
WaitPoll(status) ==
    /\ gate_pc = "wait"
    /\ wl_dt < wl_timeout
    /\ wl_polls' = Append(wl_polls, <<wl_dt, status>>)
    /\ IF status = TRUE
         THEN /\ wl_ret' = <<TRUE, wl_dt>>
              /\ gate_pc' = "returned"
         ELSE /\ gate_pc' = "sleep"
              /\ UNCHANGED wl_ret
    /\ UNCHANGED <<gate_script, wl_timeout, wl_dt, gate_ops, gate_out,
                   gate_exit>>

\* time.sleep(0.1); dt = time.time() - start_time: at least one tenth of a
\* second has passed since dt was taken last
WaitSleep(elapsed) ==
    /\ gate_pc = "sleep"
    /\ elapsed >= wl_dt + 1
    /\ wl_dt' = elapsed
    /\ gate_pc' = "wait"
    /\ UNCHANGED <<gate_script, wl_timeout, wl_polls, wl_ret, gate_ops,
                   gate_out, gate_exit>>

\* `while dt < timeout:` fails: return False, timeout
WaitTimeout ==
    /\ gate_pc = "wait"
    /\ ~(wl_dt < wl_timeout)
    /\ wl_ret' = <<FALSE, wl_timeout>>
    /\ gate_pc' = "returned"
    /\ UNCHANGED <<gate_script, wl_timeout, wl_dt, wl_polls, gate_ops,
                   gate_out, gate_exit>>

\* a check that goes on whatever link_up is
GateCheckIgnored ==
    /\ gate_pc = "returned"
    /\ gate_out' = Append(gate_out, <<"Aurora link up within", wl_ret[2]>>)
    /\ gate_pc' = "connect"
    /\ UNCHANGED <<gate_script, wl_timeout, wl_dt, wl_polls, wl_ret,
                   gate_ops, gate_exit>>

\* link_up, dt = wait_for_link_up(aurora_block); if not link_up: print the
\* ERROR line and sys.exit(1)
GateCheck ==
    /\ gate_pc = "returned"
    /\ IF ~wl_ret[1]
         THEN /\ gate_out' = Append(gate_out,
                      <<"ERROR: Aurora link not up within", wl_ret[2]>>)
              /\ gate_exit' = 1
              /\ gate_pc' = "exit"
         ELSE /\ gate_out' = Append(gate_out,
                      <<"Aurora link up within", wl_ret[2]>>)
              /\ gate_pc' = "connect"
              /\ UNCHANGED gate_exit
    /\ UNCHANGED <<gate_script, wl_timeout, wl_dt, wl_polls, wl_ret,
                   gate_ops>>

\* what main does next, and where it is then
GateStepOf(pc) ==
    IF pc = "connect" THEN <<"connect_blocks", "commit">>
    ELSE IF pc = "commit" THEN <<"commit", "stream">>
    ELSE IF pc = "stream" THEN <<"start pumps", "counters">>
    ELSE <<"read counters", "evaluate">>

\* the steps of main after the link check: connect_blocks for every
\* channel, graph.commit(), the streaming, the reading of the counters
GateStep ==
    /\ gate_pc \in {"connect", "commit", "stream", "counters"}
    /\ gate_ops' = Append(gate_ops, GateStepOf(gate_pc)[1])
    /\ gate_pc' = GateStepOf(gate_pc)[2]
    /\ UNCHANGED <<gate_script, wl_timeout, wl_dt, wl_polls, wl_ret,
                   gate_out, gate_exit>>

(***************************************************************************)
(* get_filenames                                                           *)
(***************************************************************************)
\* a string is a sequence of characters
DigitChars == <<"0", "1", "2", "3", "4", "5", "6", "7", "8", "9">>

\* the last index of character c in p, 0 when p does not hold it
RFind(p, c) ==
    LET found == { i \in 1..Len(p) : p[i] = c }
    IN IF found = {} THEN 0 ELSE CHOOSE i \in found : \A j \in found : j <= i

\* a split at the last dot wherever it stands
SplitExtAnyDot(p) ==
    LET dotIndex == RFind(p, ".")
    IN IF dotIndex > 0
         THEN <<SubSeq(p, 1, dotIndex - 1), SubSeq(p, dotIndex, Len(p))>>
         ELSE <<p, <<>>>>

\* os.path.splitext(p): the extension starts at the last dot of the last
\* path component, unless only dots precede it in that component
SplitExt(p) ==
    LET sepIndex == RFind(p, "/")
        dotIndex == RFind(p, ".")
    IN IF /\ dotIndex > sepIndex
          /\ \E filenameIndex \in (sepIndex + 1)..(dotIndex - 1) :
                p[filenameIndex] # "."
         THEN <<SubSeq(p, 1, dotIndex - 1), SubSeq(p, dotIndex, Len(p))>>
         ELSE <<p, <<>>>>

\* the decimal digits of a channel number, as format renders an int
RECURSIVE Str(_)
Str(chan) ==
    IF chan < 10 THEN <<DigitChars[chan + 1]>>
    ELSE Str(chan \div 10) \o <<DigitChars[(chan % 10) + 1]>>

\* "{}-chan{}{}".format(basename, chan, ext)
Format(basename, chan, ext) ==
    basename \o <<"-", "c", "h", "a", "n">> \o Str(chan) \o ext

FnEntry(filenames, channels) ==
    /\ fn_pc = "called"
    /\ fn_filenames = filenames
    /\ fn_channels = channels
    /\ fn_ret = NoneVal
    /\ fn_raised = "none"

GetFilenames ==
    /\ fn_pc = "called"
    /\ LET num_files_given == Len(fn_filenames)
           num_channels == Len(fn_channels)
       IN IF num_files_given = num_channels
            THEN /\ fn_ret' = fn_filenames
                 /\ UNCHANGED fn_raised
          ELSE IF num_files_given = 1
            THEN LET basename == SplitExt(fn_filenames[1])[1]
                     ext == SplitExt(fn_filenames[1])[2]
                 IN /\ fn_ret' = [i \in 1..num_channels |->
                                    Format(basename, fn_channels[i], ext)]
                    /\ UNCHANGED fn_raised
          ELSE /\ fn_raised' = "ValueError"
               /\ UNCHANGED fn_ret
    /\ fn_pc' = "done"
    /\ UNCHANGED <<fn_filenames, fn_channels>>

(***************************************************************************)
(* SpecRx: rx_function against a transport that may answer a recv call in  *)
(* every way RecvOutcome allows; it delivers the samples of a counter      *)
(* stream.                                                                 *)
(***************************************************************************)
InitRx ==
    /\ num_chans \in 1..MaxChans
    /\ buffer_size \in 1..MaxBuf
    /\ \E target \in 0..MaxTarget : RxEntry(target)
    /\ TxIdle
    /\ CmpIdle
    /\ HostIdle
    /\ NullIdle
    /\ MainIdle
    /\ VdIdle
    /\ FnIdle
    /\ GateIdle
    /\ GenIdle

RxRecv ==
    \E received \in 0..buffer_size, err \in ErrorCodes, oos \in BOOLEAN :
      LET data == [idx \in Chans |->
                     [i \in 1..received |-> CounterSample(idx, num_rx + i)]]
      IN
        /\ RecvOutcome(received, err, oos, data)
        /\ RxLoopBody(received, err, oos, data)
        /\ rx_calls' = Append(rx_calls, <<received, err>>)
        /\ UNCHANGED besidesRx

RxFinish ==
    /\ RxReturn
    /\ UNCHANGED <<rx_calls, besidesRx>>

NextRx == RxRecv \/ RxFinish

SpecRx == InitRx /\ [][NextRx]_vars

(***************************************************************************)
(* SpecTx: tx_function on counter files of any lengths, against a          *)
(* transport whose send accepts between 1 and the requested number of      *)
(* samples.                                                                *)
(***************************************************************************)
InitTx ==
    /\ num_chans \in 1..MaxChans
    /\ buffer_size \in 1..MaxBuf
    /\ \E lens \in [Chans -> 0..MaxLen], iterations \in 1..MaxIter :
         TxEntry([idx \in Chans |-> CounterData(idx, lens[idx])], iterations)
    /\ RxIdle
    /\ CmpIdle
    /\ HostIdle
    /\ NullIdle
    /\ MainIdle
    /\ VdIdle
    /\ FnIdle
    /\ GateIdle
    /\ GenIdle

TxBegin ==
    /\ TxIterStart
    /\ UNCHANGED <<tx_sent, tx_calls, besidesTx>>

TxRead ==
    /\ TxReadChunk
    /\ UNCHANGED <<tx_sent, tx_calls, besidesTx>>

TxSend ==
    \E transmitted \in 1..TxRequested :
        /\ TxSendBody(transmitted)
        /\ TxRecordSend(transmitted)
        /\ UNCHANGED besidesTx

TxFinish ==
    /\ TxReturn
    /\ UNCHANGED <<tx_sent, tx_calls, besidesTx>>

NextTx == TxBegin \/ TxRead \/ TxSend \/ TxFinish

SpecTx == InitTx /\ [][NextTx]_vars

\* tx_function runs in a thread of its own that is never suspended for ever
SpecTxFair == SpecTx /\ WF_vars(NextTx)

(***************************************************************************)
(* SpecCmp: compare on an expected source and a received source that is a  *)
(* repeated copy of it, possibly truncated and with one sample changed.    *)
(***************************************************************************)
\* the sequences of at most n samples
RECURSIVE SeqsUpTo(_)
SeqsUpTo(n) ==
    IF n = 0 THEN {<<>>}
    ELSE SeqsUpTo(n - 1) \cup [1..n -> Samples]

\* seq with sample j replaced by another value (j = 0: unchanged)
Flip(seq, j) == [i \in 1..Len(seq) |-> IF i = j THEN 1 - seq[i] ELSE seq[i]]

ReceivedOf(reference) ==
    { Flip(Take(Repeat(reference, k), n), j) :
        k \in 0..MaxReps,
        n \in 0..(MaxReps * MaxLen),
        j \in 0..(MaxReps * MaxLen) }

InitCmp ==
    /\ num_chans = 1
    /\ buffer_size \in 1..MaxBuf
    /\ \E reference \in SeqsUpTo(MaxLen) :
         \E received \in ReceivedOf(reference),
            total \in 0..(MaxReps * MaxLen), iterations \in 0..MaxIter :
           CmpEntry(reference, received, total, iterations)
    /\ RxIdle
    /\ TxIdle
    /\ HostIdle
    /\ NullIdle
    /\ MainIdle
    /\ VdIdle
    /\ FnIdle
    /\ GateIdle
    /\ GenIdle

CmpStep ==
    /\ CmpLoopBody
    /\ UNCHANGED besidesCmp

CmpFinish ==
    /\ CmpReturn
    /\ UNCHANGED besidesCmp

NextCmp == CmpStep \/ CmpFinish

SpecCmp == InitCmp /\ [][NextCmp]_vars

\* compare runs to completion on the main thread
SpecCmpFair == SpecCmp /\ WF_vars(NextCmp)

(***************************************************************************)
(* SpecNull: generate_data_and_stream_to_host with its background thread   *)
(* and the source blocks.                                                  *)
(***************************************************************************)
InitNull ==
    /\ num_chans \in 1..MaxChans
    /\ buffer_size = 1
    /\ \E stale \in 0..MaxPending : NullEntry(num_chans, stale)
    /\ RxIdle
    /\ TxIdle
    /\ CmpIdle
    /\ HostIdle
    /\ MainIdle
    /\ VdIdle
    /\ FnIdle
    /\ GateIdle
    /\ GenIdle

NullStart == NullStartThread /\ UNCHANGED besidesNull

ThreadCall == ThreadRecvCall /\ UNCHANGED besidesNull

ThreadReturn ==
    \E n \in 0..rx_pending : ThreadRecvReturn(n) /\ UNCHANGED besidesNull

FlushCall == FlushRecvCall /\ UNCHANGED besidesNull

FlushRecv ==
    \E n \in 0..rx_pending : FlushRecvReturn(n) /\ UNCHANGED besidesNull

FlushDone == FlushReturn /\ UNCHANGED besidesNull

GenStart == GenerateStart /\ UNCHANGED besidesNull

GenSleep == GenerateSleep /\ UNCHANGED besidesNull

GenStop == GenerateStop /\ UNCHANGED besidesNull

Produce == BlockProduces /\ UNCHANGED besidesNull

JoinThread == NullJoin /\ UNCHANGED besidesNull

NullDone == NullReturn /\ UNCHANGED besidesNull

NextNull ==
    \/ NullStart \/ ThreadCall \/ ThreadReturn
    \/ FlushCall \/ FlushRecv \/ FlushDone
    \/ GenStart \/ GenSleep \/ GenStop \/ Produce
    \/ JoinThread \/ NullDone

SpecNull == InitNull /\ [][NextNull]_vars

(***************************************************************************)
(* SpecHost: main of the host loopback from rx_streamer_flush to the       *)
(* joins, with tx_function and rx_function in their threads and the link   *)
(* between them.                                                           *)
(***************************************************************************)
InitHost ==
    /\ num_chans \in 1..MaxChans
    /\ buffer_size \in 1..MaxBuf
    /\ \E lens \in [Chans -> 0..MaxLen], iterations \in 1..MaxIter,
          stale \in 0..MaxStale :
         HostEntry([idx \in Chans |-> CounterData(idx, lens[idx])],
                   iterations, stale)
    /\ CmpIdle
    /\ NullIdle
    /\ MainIdle
    /\ VdIdle
    /\ FnIdle
    /\ GateIdle
    /\ GenIdle

HostFlush ==
    /\ host_pc = "flush"
    /\ \E n \in 0..LinkLen : HostFlushRecv(n) /\ UNCHANGED besidesHost

HostRxStart == HostStartRx /\ UNCHANGED besidesHost

HostTxStart == HostStartTx /\ UNCHANGED besidesHost

HostTxJoin == HostJoinTx /\ UNCHANGED besidesHost

HostRxJoin == HostJoinRx /\ UNCHANGED besidesHost

HostTxSend ==
    \E transmitted \in 0..TxRequested :
        /\ TxSendBody(transmitted)
        /\ LinkSend(transmitted)
        /\ tx_sent' = [idx \in Chans |->
                         tx_sent[idx] \o TxAccepted(idx, transmitted)]
        /\ UNCHANGED <<tx_calls, rxVars, host_pc, host_num_tx, host_num_rx,
                       besidesHost>>

HostRxRecv ==
    \E received \in 0..buffer_size, err \in ErrorCodes, oos \in BOOLEAN :
      LET data == [idx \in Chans |-> SubSeq(link[idx], 1, received)]
      IN
        /\ rx_pc = "loop"
        /\ received <= LinkLen
        /\ RecvOutcome(received, err, oos, data)
        /\ RxLoopBody(received, err, oos, data)
        /\ LinkRecv(received)
        /\ rx_calls' = Append(rx_calls, <<received, err>>)
        /\ UNCHANGED <<txVars, host_pc, host_num_tx, host_num_rx,
                       besidesHost>>

\* the steps of main, of tx_thread and of rx_thread
HostMain ==
    HostFlush \/ HostRxStart \/ HostTxStart \/ HostTxJoin \/ HostRxJoin

HostTxThread == TxBegin \/ TxRead \/ HostTxSend \/ TxFinish

HostRxThread == HostRxRecv \/ RxFinish

NextHost == HostMain \/ HostTxThread \/ HostRxThread

SpecHost == InitHost /\ [][NextHost]_vars

\* main and the two threads are each scheduled again and again
SpecHostFair ==
    /\ SpecHost
    /\ WF_vars(HostMain)
    /\ WF_vars(HostTxThread)
    /\ WF_vars(HostRxThread)

(***************************************************************************)
(* SpecMain: main of the host loopback from rx_streamer_flush to the exit  *)
(* of the process: SpecHost followed by the checks of the thread results,  *)
(* the Aurora statistics, the verification of every channel and the        *)
(* report.                                                                 *)
(***************************************************************************)
MainCheckResults == MainAssertResults /\ UNCHANGED besidesMain

MainStats ==
    \E tx_counter \in AuroraCounts, rx_counter \in AuroraCounts,
       overflow_counter \in AuroraCounts, crc_errors \in AuroraCounts :
        /\ MainStatistics(tx_counter, rx_counter, overflow_counter,
                          crc_errors)
        /\ UNCHANGED besidesMain

MainVerify ==
    /\ host_pc = "verify"
    /\ main_idx <= num_chans
    /\ \E received \in OnDisk(rx_files[main_idx]) :
         MainVerifyChannel(received) /\ UNCHANGED besidesMain

MainCompareStep ==
    /\ host_pc = "compare"
    /\ CmpLoopBody
    /\ UNCHANGED <<host_pc, mainVars, besidesMain>>

MainCompareFinish ==
    /\ host_pc = "compare"
    /\ CmpReturn
    /\ UNCHANGED <<host_pc, mainVars, besidesMain>>

MainResult == MainVerifyResult /\ UNCHANGED besidesMain

MainExit == MainReport /\ UNCHANGED besidesMain

MainTail ==
    \/ MainCheckResults
    \/ MainStats
    \/ MainVerify
    \/ MainCompareStep
    \/ MainCompareFinish
    \/ MainResult
    \/ MainExit

NextMain == NextHost \/ MainTail

SpecMain == InitHost /\ [][NextMain]_vars

(***************************************************************************)
(* SpecRun: SpecMain for one pass (iterations = 1) over input files that   *)
(* all hold the same number of samples, or of which the last one is empty  *)
(* while the others hold one sample.                                       *)
(***************************************************************************)
\* the input files of a run
RunFiles ==
    { [idx \in Chans |-> CounterData(idx, n)] : n \in 0..MaxLen }
    \cup { [idx \in Chans |-> CounterData(idx, IF idx = num_chans THEN 0
                                                                   ELSE 1)] }

InitRun ==
    /\ num_chans \in 1..MaxChans
    /\ buffer_size \in 1..MaxBuf
    /\ \E files \in RunFiles, stale \in 0..MaxStale :
         HostEntry(files, 1, stale)
    /\ CmpIdle
    /\ NullIdle
    /\ MainIdle
    /\ GenIdle
    /\ VdIdle
    /\ FnIdle
    /\ GateIdle

SpecRun == InitRun /\ [][NextMain]_vars

\* the same runs up to the joins
SpecJoin == InitRun /\ [][NextHost]_vars

(***************************************************************************)
(* SpecStats: both scripts from the start of the streaming to the reading  *)
(* of the counters: the runs of SpecRun up to the Aurora statistics, and   *)
(* the NullSrcSink loopback with the sink on the host (SpecNull) or on the *)
(* FPGA, followed by the reading of the source and Aurora counters.        *)
(***************************************************************************)
InitNullFpga ==
    /\ num_chans \in 1..MaxChans
    /\ buffer_size = 1
    /\ NullEntryFpga(num_chans)
    /\ RxIdle
    /\ TxIdle
    /\ CmpIdle
    /\ HostIdle
    /\ MainIdle
    /\ VdIdle
    /\ FnIdle
    /\ GateIdle
    /\ GenIdle

InitStats == InitRun \/ InitNull \/ InitNullFpga

NullSourceCounters == NullReadSource /\ UNCHANGED besidesNull

NullAuroraCounters ==
    \E aurora_block \in BOOLEAN :
        NullReadAurora(aurora_block) /\ UNCHANGED besidesNull

NextStats ==
    \/ NextHost
    \/ MainCheckResults
    \/ MainStats
    \/ NextNull
    \/ NullSourceCounters
    \/ NullAuroraCounters

SpecStats == InitStats /\ [][NextStats]_vars

(***************************************************************************)
(* SpecNames: get_filenames on lists of up to MaxFiles names and of up to  *)
(* MaxFiles + 1 channel numbers.                                           *)
(***************************************************************************)
NameChars == {"a", ".", "/"}

\* the file names of 1 to MaxNameLen characters
Names == UNION { [1..n -> NameChars] : n \in 1..MaxNameLen }

\* channel numbers of one and of two digits
ChannelNumbers == {0, 1, 10}

\* the names given after the first one
OtherName(i) == <<"b", DigitChars[i]>>

InitNames ==
    /\ num_chans = 1
    /\ buffer_size = 1
    /\ \E n \in 0..MaxFiles, k \in 0..(MaxFiles + 1) :
         \E name \in Names, channels \in [1..k -> ChannelNumbers] :
           FnEntry([i \in 1..n |-> IF i = 1 THEN name ELSE OtherName(i)],
                   channels)
    /\ fn_pc = "called"
    /\ RxIdle
    /\ TxIdle
    /\ CmpIdle
    /\ HostIdle
    /\ NullIdle
    /\ MainIdle
    /\ GenIdle
    /\ VdIdle
    /\ GateIdle

NamesCall == GetFilenames /\ UNCHANGED besidesFn

NextNames == NamesCall

SpecNames == InitNames /\ [][NextNames]_vars

(***************************************************************************)
(* SpecGate: main of both scripts from the configured Aurora block through *)
(* wait_for_link_up to the reading of the counters; the link status may    *)
(* be anything at every poll and a sleep may take longer than asked.       *)
(***************************************************************************)
InitGate ==
    /\ num_chans = 1
    /\ buffer_size = 1
    /\ \E script \in {"host", "nullsrcsink"}, timeout \in 0..MaxTimeout :
         GateEntry(script, timeout)
    /\ RxIdle
    /\ TxIdle
    /\ CmpIdle
    /\ HostIdle
    /\ NullIdle
    /\ MainIdle
    /\ GenIdle
    /\ VdIdle
    /\ FnIdle

GateCall ==
    \E no_aurora \in BOOLEAN : GateEnter(no_aurora) /\ UNCHANGED besidesGate

GatePoll ==
    \E status \in BOOLEAN : WaitPoll(status) /\ UNCHANGED besidesGate

GateSleep ==
    \E elapsed \in (wl_dt + 1)..(wl_dt + MaxTick) :
        WaitSleep(elapsed) /\ UNCHANGED besidesGate

GateTimeout == WaitTimeout /\ UNCHANGED besidesGate

GateLinkCheck == GateCheck /\ UNCHANGED besidesGate

GateGoOn == GateStep /\ UNCHANGED besidesGate

NextGate ==
    \/ GateCall \/ GatePoll \/ GateSleep \/ GateTimeout
    \/ GateLinkCheck \/ GateGoOn

SpecGate == InitGate /\ [][NextGate]_vars

(***************************************************************************)
(* SpecGen: objects of NullSrcSinkReferenceData, constructed with any      *)
(* words_per_line, iterated and iterated again at any time.                *)
(***************************************************************************)
\* two objects, constructed independently of each other
Gens == {1, 2}

InitGen ==
    /\ \E words_per_line \in [Gens -> 0..MaxWordsPerLine] :
         GenConstructed(words_per_line)
    /\ num_chans = 1
    /\ buffer_size = 1
    /\ RxIdle
    /\ TxIdle
    /\ CmpIdle
    /\ HostIdle
    /\ NullIdle
    /\ MainIdle
    /\ VdIdle
    /\ FnIdle
    /\ GateIdle

\* iter(g)
GenIterate ==
    \E g \in DOMAIN gen_mask :
        /\ gen_iters[g] < MaxRestarts
        /\ GenIter(g)
        /\ gen_words' = [gen_words EXCEPT ![g] = <<>>]
        /\ gen_iters' = [gen_iters EXCEPT ![g] = @ + 1]
        /\ UNCHANGED besidesGen

\* next(g)
GenProduce ==
    \E g \in DOMAIN gen_mask :
        /\ Len(gen_words[g]) < MaxWords
        /\ GenNext(g)
        /\ gen_words' = [gen_words EXCEPT ![g] = Append(@, GenWord(g))]
        /\ UNCHANGED <<gen_iters, besidesGen>>

NextGen == GenIterate \/ GenProduce

SpecGen == InitGen /\ [][NextGen]_vars

(***************************************************************************)
(* SpecGenLong: one object of NullSrcSinkReferenceData, iterated once,     *)
(* that produces words until its line counter has passed MaxLine.          *)
(***************************************************************************)
InitGenLong ==
    /\ \E w \in {1, 2} : GenConstructed([g \in {1} |-> w])
    /\ num_chans = 1
    /\ buffer_size = 1
    /\ RxIdle
    /\ TxIdle
    /\ CmpIdle
    /\ HostIdle
    /\ NullIdle
    /\ MainIdle
    /\ VdIdle
    /\ FnIdle
    /\ GateIdle

\* iter(g)
LongIterate ==
    /\ gen_iters[1] = 0
    /\ GenIter(1)
    /\ gen_iters' = [gen_iters EXCEPT ![1] = 1]
    /\ UNCHANGED <<gen_words, besidesGen>>

\* next(g)
LongProduce ==
    /\ gen_line[1] <= MaxLine
    /\ GenNext(1)
    /\ UNCHANGED <<gen_words, gen_iters, besidesGen>>

NextGenLong == LongIterate \/ LongProduce

SpecGenLong == InitGenLong /\ [][NextGenLong]_vars

(***************************************************************************)
(* SpecVd: _verify_data on captured words that are the words of the        *)
(* NullSrcSink block, some of them changed.                                *)
(***************************************************************************)
\* word number i (from 0) as a NullSrcSink block with 2 words per line
\* sends it
BlockWord(i) == <<(i \div 2) % Half, (65535 - (i \div 2)) % Half>>

\* a word with every bit of its lower half changed
Changed(word) == <<word[1], 65535 - word[2]>>

InitVd ==
    /\ \E n \in 0..MaxWords :
         \E changed \in SUBSET (1..n) :
           VdEntry([i \in 1..n |-> IF i \in changed
                                     THEN Changed(BlockWord(i - 1))
                                     ELSE BlockWord(i - 1)])
    /\ num_chans = 1
    /\ buffer_size = 1
    /\ RxIdle
    /\ TxIdle
    /\ CmpIdle
    /\ HostIdle
    /\ NullIdle
    /\ MainIdle
    /\ FnIdle
    /\ GateIdle

VdStart ==
    /\ VdIter
    /\ UNCHANGED <<gen_words, gen_iters, besidesVd>>

VdStep ==
    /\ VdLoopBody
    /\ UNCHANGED <<gen_words, gen_iters, besidesVd>>

VdFinish ==
    /\ VdReturn
    /\ UNCHANGED besidesVd

NextVd == VdStart \/ VdStep \/ VdFinish

SpecVd == InitVd /\ [][NextVd]_vars

(***************************************************************************)
(* Properties of rx_function (SpecRx)                                      *)
(***************************************************************************)
\* the recv calls made so far: one reported overflow, every other one
\* reported none, and each delivered at least one sample
OneOverflowElseNone ==
    /\ Cardinality({i \in 1..Len(rx_calls) : rx_calls[i][2] = "overflow"}) = 1
    /\ \A i \in 1..Len(rx_calls) :
         rx_calls[i][2] \in {"none", "overflow"} /\ rx_calls[i][1] >= 1

OverflowLines ==
    {i \in 1..Len(rx_out) :
       rx_out[i] \in {"Got an overflow indication.",
                      "Got an out-of-sequence indication."}}

\* C1: with a transport that reports Overflow on one recv call and None on
\* every other call, rx_function carries on after the Overflow call: it
\* returns only once the accumulated count has reached the target, returns
\* a count that has reached the target, and has logged the overflow
\* indication exactly once.
C1_OverflowTolerated ==
    OneOverflowElseNone =>
        /\ Cardinality(OverflowLines) = 1
        /\ rx_pc = "done" =>
             /\ SumReceived(rx_calls) >= rx_num_samples
             /\ rx_ret >= rx_num_samples

\* error codes on which the receive pump stops early
StopsPump(err) == err \notin {"none", "overflow"}

\* C2: the first recv call that reports Timeout, or a code other than None
\* and Overflow, is the last recv call: rx_function has returned, and it
\* returned the sum of the sample counts of all recv calls made, the failing
\* one included, which is below the target when fewer than target samples
\* were delivered.
C2_EarlyTermination ==
    \A i \in 1..Len(rx_calls) :
        StopsPump(rx_calls[i][2]) =>
            /\ i = Len(rx_calls)
            /\ rx_pc = "done"
            /\ rx_ret = SumReceived(rx_calls)
            /\ SumReceived(rx_calls) < rx_num_samples
                 => rx_ret < rx_num_samples

\* a Timeout on the third recv call, after two calls that delivered samples
C2_Witness ==
    /\ rx_pc = "done"
    /\ Len(rx_calls) = 3
    /\ rx_calls[3][2] = "timeout"
    /\ rx_ret > 0
    /\ rx_ret < rx_num_samples

\* C22: after every recv call and on every way rx_function ends, the file
\* of every channel has had the same number of samples appended, that
\* number is num_rx, the count that is returned, and the content of each
\* file is the concatenation, in call order, of the slices recv delivered
\* for that channel.
C22_SinksLockstep ==
    rx_pc \in {"loop", "done"}
    => /\ num_rx = SumReceived(rx_calls)
       /\ \A idx \in Chans : rx_files[idx] = CounterData(idx, num_rx)
       /\ rx_pc = "done" => rx_ret = num_rx

\* two channels, two recv calls, the second one short and ended by timeout
C22_Witness ==
    /\ num_chans = 2
    /\ buffer_size = 2
    /\ rx_pc = "done"
    /\ rx_calls = <<<<2, "none">>, <<1, "timeout">>>>
    /\ rx_ret = 3

\* the count before the recv call made last
BeforeLastCall == num_rx - rx_calls[Len(rx_calls)][1]

\* C28: when rx_function returns because the target was reached the count
\* returned is at least the target; on every path it is at most
\* target + buffer capacity - 1; and no recv call is made once the count
\* is at or above the target.
C28_CountBound ==
    /\ rx_pc = "done" => rx_ret <= rx_num_samples + buffer_size - 1
    /\ (rx_pc = "done"
          /\ (rx_calls = <<>> \/ rx_calls[Len(rx_calls)][2] = "none"))
       => rx_ret >= rx_num_samples
    /\ rx_calls # <<>> => BeforeLastCall < rx_num_samples

\* the target 3 is passed by a full buffer of 2 samples
C28_Witness ==
    /\ rx_pc = "done"
    /\ rx_num_samples = 3
    /\ buffer_size = 2
    /\ rx_calls = <<<<2, "none">>, <<2, "none">>>>
    /\ rx_ret = 4

(***************************************************************************)
(* Properties of tx_function (SpecTx, SpecTxFair)                          *)
(***************************************************************************)
\* every channel source has the length of the first one
EqualLengths == \A idx \in Chans : Len(tx_files[idx]) = Len(tx_files[1])

\* the length of the shortest channel source
ShortestSource ==
    CHOOSE n \in {Len(tx_files[idx]) : idx \in Chans} :
        \A idx \in Chans : n <= Len(tx_files[idx])

CeilDiv(a, b) == (a + b - 1) \div b

C5_Safe ==
    EqualLengths =>
        /\ tx_pc # "raised"
        /\ \A i \in 1..Len(tx_calls) : tx_calls[i][1] \in 1..buffer_size
        /\ tx_pc = "done" =>
             /\ tx_ret = tx_iterations * Len(tx_files[1])
             /\ Len(tx_calls) >=
                  tx_iterations * CeilDiv(Len(tx_files[1]), buffer_size)

\* C5: with channel sources of one length S and a send that accepts between
\* 1 and the requested number of samples, tx_function terminates, returns
\* iterations * S, has made at least iterations * ceil(S / B) send calls,
\* and never asks send for 0 or for more than B samples.
C5_TxChunking ==
    /\ []C5_Safe
    /\ <>(EqualLengths => tx_pc = "done")

\* two iterations over 3 samples with buffer capacity 2 and partial sends
C5_Witness ==
    /\ tx_pc = "done"
    /\ EqualLengths
    /\ Len(tx_files[1]) = 3
    /\ buffer_size = 2
    /\ tx_iterations = 2
    /\ tx_ret = 6
    /\ Len(tx_calls) > 4

IsPrefix(s, t) == Len(s) <= Len(t) /\ s = SubSeq(t, 1, Len(s))

\* C6: for every channel the samples accepted by the successive send calls
\* are, in order, the channel's source content repeated `iterations` times:
\* a prefix of it while the pump runs, all of it when the pump has returned;
\* and the read position of every source is the number of samples handled
\* in the current iteration, so each iteration starts from position 0.
C6_OrderPreserved ==
    \A idx \in Chans :
        /\ IsPrefix(tx_sent[idx], Repeat(tx_files[idx], tx_iterations))
        /\ tx_pc = "done" =>
             tx_sent[idx] = Repeat(tx_files[idx], tx_iterations)
        /\ tx_pc = "read" => tx_fpos[idx] = num_tx_iteration
        /\ tx_pc = "send" =>
             tx_fpos[idx] = num_tx_iteration - num_tx_current
                              + buffer_len_current

\* two channels with different content, two iterations, and a send call
\* that accepted fewer samples than requested
C6_Witness ==
    /\ tx_pc = "done"
    /\ num_chans = 2
    /\ tx_iterations = 2
    /\ Len(tx_files[1]) = 3
    /\ \E i \in 1..Len(tx_calls) : tx_calls[i][2] < tx_calls[i][1]

\* C7 as claimed: with two channel sources of unequal length tx_function
\* raises the assertion and has made no send call before it.
C7_NoSendBeforeMismatch ==
    ~EqualLengths => tx_calls = <<>> /\ tx_pc # "done"

C7_Safe ==
    ~EqualLengths =>
        /\ tx_pc # "done"
        /\ tx_pc = "raised" =>
             /\ tx_iteration = 0
             /\ num_tx = buffer_size * (ShortestSource \div buffer_size)
             /\ \A idx \in Chans :
                  tx_sent[idx] = SubSeq(tx_files[idx], 1, num_tx)
             /\ ShortestSource < buffer_size => tx_calls = <<>>

\* C7 (amended): with channel sources of unequal length tx_function raises
\* the assertion when it reads the first chunk in which the channels' reads
\* differ in length, and it has made no send call for that chunk: the
\* samples sent before are exactly the floor(min length / B) full chunks
\* that precede it, so no send call at all precedes the failure when the
\* shortest source holds fewer than B samples.
C7_MismatchRaised ==
    /\ []C7_Safe
    /\ <>(~EqualLengths => tx_pc = "raised")

\* the assertion fails after a full chunk of both channels has been sent
C7_Witness ==
    /\ tx_pc = "raised"
    /\ num_chans = 2
    /\ num_tx = 2
    /\ buffer_size = 2

(***************************************************************************)
(* Properties of compare (SpecCmp, SpecCmpFair)                            *)
(***************************************************************************)
\* the received source is the expected source repeated k times
ReceivedIsRepeated(k) == received_file = Repeat(reference_file, k)

CmpRaised == cmp_pc \in {"eof_reference", "eof_received", "mismatch"}

\* C8: when the received source is the expected source (S >= 1 samples)
\* repeated k times, compare with totalSamples = k * S and iterations = k
\* raises nothing, whatever the chunk size.
C8_RepeatedPlayback ==
    \A k \in 1..MaxReps :
        ( /\ Len(reference_file) >= 1
          /\ ReceivedIsRepeated(k)
          /\ num_samples_total = k * Len(reference_file)
          /\ num_iterations = k )
        => ~CmpRaised

RoundTrip ==
    /\ received_file = reference_file
    /\ num_samples_total = Len(reference_file)
    /\ num_iterations = 1

\* C9: when the received source is an unmodified copy of the expected
\* source of M >= 0 samples, compare with totalSamples = M and
\* iterations = 1 raises nothing and returns, for every chunk size.
C9_RoundTrip ==
    /\ [](RoundTrip => ~CmpRaised)
    /\ <>(RoundTrip => cmp_pc = "ok")

\* a copy of 3 samples compared in chunks of 2: the last chunk is partial
C9_Witness ==
    /\ RoundTrip
    /\ cmp_pc = "ok"
    /\ Len(reference_file) = 3
    /\ buffer_size = 2
    /\ processed_samples = 3

\* C10: compare reads the expected source for at most `iterations` passes:
\* with an expected source of S >= 1 samples, a received source that is the
\* repeated expected data and at least totalSamples long, and
\* totalSamples > iterations * S, compare ends by raising PrematureEOF for
\* the reference file after exactly iterations * S processed samples.
\* (Stated for chunk sizes that divide S, so that no chunk of the received
\* source straddles the end of a pass.)
C10_PassLimit ==
    ( /\ Len(reference_file) >= 1
      /\ Len(reference_file) % buffer_size = 0
      /\ num_iterations >= 1
      /\ \E k \in 1..MaxReps : ReceivedIsRepeated(k)
      /\ Len(received_file) >= num_samples_total
      /\ num_samples_total > num_iterations * Len(reference_file)
      /\ cmp_pc # "loop" )
    => /\ cmp_pc = "eof_reference"
       /\ processed_samples = num_iterations * Len(reference_file)

\* the received source is the expected source with sample j changed
\* (j counts from 1: the sample at offset j - 1)
OneFlipped(j) ==
    /\ j \in 1..Len(reference_file)
    /\ received_file = Flip(reference_file, j)
    /\ j <= num_samples_total

\* the offset of the first sample of the chunk that holds offset n
ChunkStart(n) == buffer_size * (n \div buffer_size)

\* C11 as stated: when the received source differs from the expected source
\* in exactly one sample, at an offset below totalSamples, compare ends with
\* DataMismatch and the offset it reports is exactly the offset of that
\* sample, for every chunk size.
C11_ExactOffset ==
    \A j \in 1..MaxLen :
        (OneFlipped(j) /\ cmp_pc # "loop")
        => (cmp_pc = "mismatch" /\ processed_samples = j - 1)

C11_Safe ==
    \A j \in 1..MaxLen :
        (OneFlipped(j) /\ cmp_pc # "loop")
        => /\ cmp_pc = "mismatch"
           /\ processed_samples = ChunkStart(j - 1)
           /\ j - processed_samples \in 1..Len(cmp_reference)
           /\ Len(cmp_received) = Len(cmp_reference)
           /\ \A i \in 1..Len(cmp_reference) :
                (cmp_reference[i] # cmp_received[i])
                <=> (i = j - processed_samples)

\* C11 amended: when the received source differs from the expected source
\* in exactly one sample, at an offset below totalSamples, compare never
\* returns normally; it raises DataMismatch, the number of processed samples
\* it reports is the offset of the first sample of the chunk that holds the
\* changed sample, and the two chunks it reports differ in that sample only.
C11_ChunkOffset ==
    /\ []C11_Safe
    /\ <>((\E j \in 1..MaxLen : OneFlipped(j)) => cmp_pc = "mismatch")

\* the second sample of a chunk of 2 is changed: the mismatch is raised with
\* the offset of the first sample of that chunk
C11_Witness ==
    /\ OneFlipped(2)
    /\ Len(reference_file) = 3
    /\ buffer_size = 2
    /\ cmp_pc = "mismatch"
    /\ processed_samples = 0

\* the received source is the first R samples of the expected source
Truncated(R) ==
    /\ R < num_samples_total
    /\ num_samples_total <= Len(reference_file)
    /\ received_file = Take(reference_file, R)
    /\ num_iterations = 1

\* C12: when the received source holds only the first R < totalSamples
\* samples of the expected data and iterations = 1, compare ends with
\* PrematureEOF for the received source after R processed samples, for
\* every R and every chunk size.
C12_ReceivedEOF ==
    \A R \in 0..MaxLen :
        (Truncated(R) /\ cmp_pc # "loop")
        => (cmp_pc = "eof_received" /\ processed_samples = R)

\* every pass through the loop body adds to processed_samples, uses one of
\* the rewinds or raises
CmpProgress ==
    cmp_pc = "loop"
    => \/ processed_samples' > processed_samples
       \/ cmp_iteration' > cmp_iteration
       \/ cmp_pc' # "loop"

\* C30: for all finite expected and received sources (an empty expected
\* source included), every totalSamples >= 0, iterations >= 0 and chunk
\* size B >= 1, compare terminates, by returning, by DataMismatch or by
\* PrematureEOF, because every pass through its loop adds to the number of
\* processed samples, uses one of the bounded rewinds or raises.
C30_Terminates ==
    /\ [][CmpProgress]_vars
    /\ <>(cmp_pc \in {"ok", "mismatch", "eof_reference", "eof_received"})

\* an empty expected source: both rewinds are used, then PrematureEOF
C30_Witness ==
    /\ reference_file = <<>>
    /\ num_samples_total >= 1
    /\ num_iterations = 2
    /\ cmp_iteration = 2
    /\ cmp_pc = "eof_reference"

(***************************************************************************)
(* Properties of NullSrcSinkReferenceData (SpecGen)                        *)
(***************************************************************************)
IsPowerOfTwo(w) == w >= 1 /\ BitAnd(w, w - 1) = 0

\* words_per_line of object g
WordsPerLine(g) == gen_mask[g] + 1

\* the word number i (from 0) of the reference sequence with w words per
\* line: ((i div w) mod 2^16) * 2^16 + ((0xFFFF - (i div w)) mod 2^16)
ExpectedWord(i, w) == <<(i \div w) % Half, (65535 - (i \div w)) % Half>>

\* 0x0000FFFF, 0x0000FFFF, 0x0001FFFE, 0x0001FFFE, 0x0002FFFD, 0x0002FFFD
FirstSixWords ==
    << <<0, 65535>>, <<0, 65535>>, <<1, 65534>>, <<1, 65534>>,
       <<2, 65533>>, <<2, 65533>> >>

\* C16: for every words_per_line w that is a power of two, word number i
\* of a freshly iterated generator is
\* ((i div w) mod 2^16) * 2^16 + ((0xFFFF - (i div w)) mod 2^16), and
\* after i + 1 words the line counter is (i + 1) div w; with w = 2 the
\* first six words are 0x0000FFFF, 0x0000FFFF, 0x0001FFFE, 0x0001FFFE,
\* 0x0002FFFD, 0x0002FFFD.
C16_SequenceValues ==
    \A g \in DOMAIN gen_mask :
        (IsPowerOfTwo(WordsPerLine(g)) /\ gen_iteration[g] # NoneVal)
        => /\ gen_iteration[g] = Len(gen_words[g])
           /\ \A i \in 1..Len(gen_words[g]) :
                gen_words[g][i] = ExpectedWord(i - 1, WordsPerLine(g))
           /\ gen_line[g] = Len(gen_words[g]) \div WordsPerLine(g)
           /\ (WordsPerLine(g) = 2 /\ Len(gen_words[g]) >= 6)
              => SubSeq(gen_words[g], 1, 6) = FirstSixWords

\* six words of a generator with two words per line
C16_Witness ==
    \E g \in DOMAIN gen_mask :
        /\ WordsPerLine(g) = 2
        /\ Len(gen_words[g]) = 6
        /\ gen_line[g] = 3
        /\ gen_retval[g] = <<2, 65533>>

\* the words both sequences hold are the same
AgreeOnPrefix(s, t) == \A i \in 1..Min(Len(s), Len(t)) : s[i] = t[i]

\* C18: two generators constructed with the same words_per_line = 2^k
\* produce the same words, and an iter() call on a generator that has
\* produced any number of words puts it back to iteration 0, line 0,
\* hi 0x00000000, lo 0x0000FFFF, so that its words are again those of a
\* generator iterated once.
C18_DeterminismRestart ==
    /\ \A g \in DOMAIN gen_mask, h \in DOMAIN gen_mask :
         (IsPowerOfTwo(WordsPerLine(g)) /\ gen_mask[g] = gen_mask[h])
         => AgreeOnPrefix(gen_words[g], gen_words[h])
    /\ \A g \in DOMAIN gen_mask :
         (gen_iters[g] >= 1 /\ gen_words[g] = <<>>)
         => /\ gen_iteration[g] = 0
            /\ gen_line[g] = 0
            /\ gen_hi[g] = <<0, 0>>
            /\ gen_lo[g] = <<0, 65535>>

\* generator 1 was iterated again after it had produced words of several
\* lines, generator 2 was iterated once: both hold the same words
C18_Witness ==
    /\ gen_mask[1] = 1
    /\ gen_mask[2] = 1
    /\ gen_iters[1] = 2
    /\ gen_iters[2] = 1
    /\ Len(gen_words[1]) = 5
    /\ Len(gen_words[2]) = 6
    /\ gen_retval[1] = <<2, 65533>>

\* a step of __next__ that changes the line: from hi = 0xFFFF0000 it leads
\* to hi = 0x00000000, from lo = 0x00000000 to lo = 0x0000FFFF
WrapsOnLineChange ==
    \A g \in DOMAIN gen_mask :
        (gen_line[g] >= 0 /\ gen_line'[g] = gen_line[g] + 1)
        => /\ gen_hi[g] = <<65535, 0>> => gen_hi'[g] = <<0, 0>>
           /\ gen_lo[g] = <<0, 0>> => gen_lo'[g] = <<0, 65535>>

\* after 65536 line changes the word is 0x0000FFFF again
WordAfterWrap ==
    \A g \in DOMAIN gen_mask :
        gen_line[g] = 65536 => GenWord(g) = <<0, 65535>>

\* C17: in the 32-bit state of the generator a line change taken from
\* hi = 0xFFFF0000 yields hi = 0x00000000 and a line change taken from
\* lo = 0x00000000 yields lo = 0x0000FFFF (masked wrap modulo 2^16, neither
\* saturation nor an error); after 65536 line changes the word produced is
\* 0x0000FFFF again.
C17_Wraparound == [][WrapsOnLineChange]_vars /\ []WordAfterWrap

\* the generator with one word per line after 65536 words
C17_Witness ==
    /\ gen_mask[1] = 0
    /\ gen_iteration[1] = 65536
    /\ gen_line[1] = 65536
    /\ gen_retval[1] = <<65535, 0>>
    /\ gen_hi[1] = <<0, 0>>
    /\ gen_lo[1] = <<0, 65535>>

\* C25: for every positive words_per_line w, a power of two or not, the
\* generator emits each counter pair (hi, lo) for exactly w consecutive
\* words before it advances to the next pair: word number i carries the
\* pair of line i div w.
C25_LineLength ==
    \A g \in DOMAIN gen_mask :
        (WordsPerLine(g) >= 1 /\ gen_iteration[g] # NoneVal)
        => \A i \in 1..Len(gen_words[g]) :
             gen_words[g][i] = ExpectedWord(i - 1, WordsPerLine(g))

\* C19: the construction with words_per_line = 0 fails with
\* InvalidConfiguration, so that no generator object with words_per_line = 0
\* is ever iterated and produces a word.
C19_ZeroRejected ==
    \A g \in DOMAIN gen_mask :
        WordsPerLine(g) = 0
        => (gen_iteration[g] = NoneVal /\ gen_words[g] = <<>>)

(***************************************************************************)
(* Properties of _verify_data (SpecVd)                                     *)
(***************************************************************************)
\* the positions (from 1) of the captured words that differ from the
\* reference word of the same position
Mismatches ==
    { i \in 1..Len(vd_data) : vd_data[i] # ExpectedWord(i - 1, 2) }

FirstMismatch == CHOOSE i \in Mismatches : \A j \in Mismatches : i <= j

\* C20: _verify_data returns (True, "") iff every captured word equals the
\* reference word of the same index; otherwise it stops at the smallest
\* mismatching index i, without taking the words after it, and its message
\* reports the line of that word, i div 2, the reference word and the
\* received word.
C20_ReferenceMode ==
    vd_pc = "done"
    => IF Mismatches = {}
         THEN vd_ret = <<TRUE, "">>
         ELSE /\ vd_pos = FirstMismatch
              /\ vd_ret = <<FALSE,
                            <<"mismatch in line", (FirstMismatch - 1) \div 2,
                              ExpectedWord(FirstMismatch - 1, 2),
                              vd_data[FirstMismatch]>> >>

(***************************************************************************)
(* Properties of the NullSrcSink loopback (SpecNull)                       *)
(***************************************************************************)
\* C4: at no time are two recv calls on the same RX streamer in progress:
\* the recv of the background thread and the recv calls of
\* rx_streamer_flush on the main thread never overlap.
C4_SingleReceiver == Cardinality(recv_active) <= 1

(***************************************************************************)
(* Properties of main of the host loopback (SpecMain)                      *)
(***************************************************************************)
\* s is the end of t
IsSuffix(s, t) ==
    /\ Len(s) <= Len(t)
    /\ SubSeq(t, Len(t) - Len(s) + 1, Len(t)) = s

Printed(line) == \E i \in 1..Len(main_out) : main_out[i] = line

\* compare has failed for a channel: a mismatch that was recorded, or the
\* failure of the compare call made last
VerificationFailed ==
    \/ \E i \in 1..Len(errors) : errors[i][1] = "array mismatch"
    \/ host_pc \in {"compare", "exit"} /\ CmpRaised

\* the errors are printed, each prefixed ERROR:, and the exit status is 1
ReportsErrors ==
    /\ errors # <<>>
    /\ IsSuffix(ErrorLines(errors), main_out)
    /\ ~Printed("PASS")
    /\ exit_code = 1

\* C13: when compare fails for one channel, with PrematureEOF or with
\* DataMismatch, main records the failure in the list of errors, still
\* verifies every remaining channel, and ends by printing the recorded
\* errors prefixed ERROR: and exiting with status 1.
C13_FailuresAccumulate ==
    (host_pc = "exit" /\ VerificationFailed)
    => /\ main_raised = "none"
       /\ main_idx = num_chans + 1
       /\ \E i \in 1..Len(errors) :
            errors[i][1] \in {"array mismatch", "reached EOF early"}
       /\ ReportsErrors

\* rx_function returned because recv reported an error code other than
\* none, timeout and overflow
RxStoppedByOther ==
    /\ rx_pc = "done"
    /\ rx_calls # <<>>
    /\ rx_calls[Len(rx_calls)][2] = "other"

\* C14: when rx_function ends early because recv reported an error code
\* other than none, timeout and overflow, the transport error is in the
\* list of errors: a run that reaches the report has a non-empty list,
\* prints ERROR lines, does not print PASS and exits with status 1.
C14_TransportErrorRecorded ==
    (host_pc = "exit" /\ RxStoppedByOther /\ main_raised = "none")
    => ReportsErrors

\* C15: every run of main ends in one of two ways: the list of errors is
\* empty, the last line printed is PASS and the exit status is 0; or the
\* list is not empty, every error is printed once, in order, prefixed
\* ERROR:, PASS is not printed and the exit status is 1.  No run ends by
\* an uncaught exception.
C15_ExitContract ==
    host_pc = "exit"
    => /\ main_raised = "none"
       /\ \/ /\ errors = <<>>
             /\ main_out # <<>>
             /\ main_out[Len(main_out)] = "PASS"
             /\ exit_code = 0
          \/ ReportsErrors

(***************************************************************************)
(* Properties of the host loopback (SpecHost, SpecHostFair)                *)
(***************************************************************************)
\* C3: whatever the link does (send calls that accept 0 samples because
\* it is full, recv calls that report Timeout or an error), under fair
\* scheduling of main and the two threads both pumps eventually terminate
\* and both joins of main return.  (Stated for the runs in which no recv
\* call reports Overflow, so that the property does not depend on what
\* rx_function does on Overflow.)
C3_DuplexLiveness ==
    \/ <>(\E i \in 1..Len(rx_calls) : rx_calls[i][2] = "overflow")
    \/ <>( /\ tx_pc \in {"done", "raised"}
           /\ rx_pc = "done"
           /\ host_pc = "joined" )

(***************************************************************************)
(* Properties of the threads of the host loopback (SpecJoin)               *)
(***************************************************************************)
\* main is past both joins
PastJoins == host_pc \in {"joined", "stats", "verify", "compare", "exit"}

\* C21: the rx thread is started before the tx thread, so nothing is sent
\* before the rx thread was started; main is past the joins only when
\* both pumps have ended; and the num_tx and num_rx that main reports are
\* the values tx_function and rx_function returned.
C21_ThreadOrchestration ==
    /\ (tx_pc # "idle" \/ \E idx \in Chans : tx_sent[idx] # <<>>)
       => rx_pc # "idle"
    /\ PastJoins
       => /\ tx_pc \in {"done", "raised"}
          /\ rx_pc = "done"
          /\ host_num_tx = tx_ret
          /\ host_num_rx = rx_ret

C21_Witness ==
    /\ num_chans = 2
    /\ host_pc = "joined"
    /\ host_num_tx = 2
    /\ host_num_rx = 2
    /\ rx_files = tx_files

(***************************************************************************)
(* Properties of get_filenames (SpecNames)                                 *)
(***************************************************************************)
\* position d of name holds the dot that starts the extension: no dot and
\* no separator follows it, and a character other than a dot precedes it
\* in the same path component
IsExtDot(name, d) ==
    /\ name[d] = "."
    /\ \A i \in (d + 1)..Len(name) : name[i] \notin {".", "/"}
    /\ \E j \in 1..(d - 1) :
         /\ name[j] \notin {".", "/"}
         /\ \A i \in j..(d - 1) : name[i] # "/"

\* out is name with -chan<channel> inserted before the extension, at the
\* end when name has no extension
IsSuffixed(out, name, chan) ==
    LET dots == { d \in 1..Len(name) : IsExtDot(name, d) }
        k == IF dots = {} THEN Len(name) ELSE (CHOOSE d \in dots : TRUE) - 1
    IN out = SubSeq(name, 1, k)
             \o <<"-", "c", "h", "a", "n">> \o Str(chan)
             \o SubSeq(name, k + 1, Len(name))

\* C23: get_filenames returns one filename per channel or raises.  Equal
\* numbers of names and channels: the names are returned unchanged.  One
\* name for another number of channels: <base>-chan<channel><ext> for each
\* channel in channel order, distinct for distinct channel numbers.  Every
\* other combination raises ValueError.
C23_FilenameMapping ==
    fn_pc = "done"
    => LET n == Len(fn_filenames)
           c == Len(fn_channels)
       IN /\ fn_raised \in {"none", "ValueError"}
          /\ fn_raised = "none" => Len(fn_ret) = c
          /\ fn_raised # "none" => fn_ret = NoneVal
          /\ n = c => fn_raised = "none" /\ fn_ret = fn_filenames
          /\ (n = 1 /\ c # 1)
             => /\ fn_raised = "none"
                /\ \A i \in 1..c :
                     IsSuffixed(fn_ret[i], fn_filenames[1], fn_channels[i])
                /\ \A i, j \in 1..c :
                     fn_channels[i] # fn_channels[j] => fn_ret[i] # fn_ret[j]
          /\ (n # c /\ n # 1) => fn_raised = "ValueError"

C23_Witness ==
    /\ fn_pc = "done"
    /\ fn_filenames = <<<<"a", ".", "a">>>>
    /\ fn_channels = <<0, 10>>
    /\ fn_ret = << <<"a", "-", "c", "h", "a", "n", "0", ".", "a">>,
                   <<"a", "-", "c", "h", "a", "n", "1", "0", ".", "a">> >>

(***************************************************************************)
(* Properties of a run of the host loopback (SpecRun)                      *)
(***************************************************************************)
PrintedPass == \E i \in 1..Len(main_out) : main_out[i] = "PASS"

\* C27: when rx_function returns fewer samples than its target
\* num_samples * iterations, for example after a Timeout, the run does not
\* print PASS.
C27_ShortReceiveNeverPasses ==
    (rx_pc = "done" /\ rx_ret < rx_num_samples) => ~PrintedPass

\* main is past tx_thread.join()
PastTxJoin == host_pc = "join_rx" \/ PastJoins

\* C29: join returns the value the target returned when it completed, and
\* None when the target raised (the channel-length assertion of
\* tx_function); in that case main still joins the rx thread, then stops
\* at its `is not None` assertion before it reads statistics or verifies
\* data, and never prints PASS.
C29_PumpFailureNotSuccess ==
    /\ PastTxJoin
       => /\ tx_pc = "done" => host_num_tx = num_tx
          /\ tx_pc = "raised" => host_num_tx = NoneVal
    /\ PastJoins => (rx_pc = "done" /\ host_num_rx = num_rx)
    /\ tx_pc = "raised"
       => /\ host_pc \notin {"stats", "verify", "compare"}
          /\ main_idx = 0
          /\ errors = <<>>
          /\ cmp_pc = "idle"
          /\ ~PrintedPass
          /\ host_pc = "exit"
             => /\ main_raised = "AssertionError"
                /\ exit_code = 1
                /\ host_num_rx = rx_ret
                /\ host_num_rx # NoneVal

C29_Witness ==
    /\ num_chans = 2
    /\ tx_pc = "raised"
    /\ host_pc = "exit"
    /\ host_num_tx = NoneVal
    /\ host_num_rx = 1
    /\ main_raised = "AssertionError"
    /\ main_out = <<>>

(***************************************************************************)
(* Properties of the reading of the counters (SpecStats)                   *)
(***************************************************************************)
\* the blocks that were sent a stream command of the given mode
Commanded(mode) ==
    { stream_cmds[i][1] : i \in { j \in 1..Len(stream_cmds) :
                                     stream_cmds[j][2] = mode } }

\* generate_data has returned
GenerateReturned ==
    null_pc \in {"join", "flush2", "flush2_recv", "return", "done",
                 "aurora_counters", "evaluate"}

\* C24: statistics are sampled only after streaming has stopped.  Host
\* loopback: the Aurora counters are read only when both pump threads have
\* been joined.  NullSrcSink loopback: a NullSrcSink or Aurora counter is
\* read only when generate_data has issued stop_cont to every source block
\* it started; when generate_data has returned, every block that received
\* start_cont has received stop_cont; and no start_cont follows a
\* stop_cont.
C24_StatisticsAfterStreaming ==
    /\ main_idx >= 1
       => /\ tx_pc \in {"done", "raised"}
          /\ rx_pc = "done"
          /\ host_num_tx = tx_ret
          /\ host_num_rx = rx_ret
    /\ null_reads # <<>>
       => /\ Commanded("start_cont") = 1..null_blocks
          /\ Commanded("stop_cont") = Commanded("start_cont")
          /\ streaming = {}
    /\ GenerateReturned
       => Commanded("start_cont") \subseteq Commanded("stop_cont")
    /\ \A i \in 1..Len(stream_cmds), j \in 1..Len(stream_cmds) :
         (stream_cmds[i][2] = "stop_cont" /\ stream_cmds[j][2] = "start_cont")
         => j < i

\* both source blocks were started and then stopped, and the counters of
\* both and of the Aurora block were read
C24_Witness ==
    /\ stream_cmds = << <<1, "start_cont">>, <<2, "start_cont">>,
                        <<1, "stop_cont">>, <<2, "stop_cont">> >>
    /\ null_reads = << <<1, "source">>, <<2, "source">>, <<0, "aurora">> >>
    /\ thread_pc = "done"

(***************************************************************************)
(* Properties of wait_for_link_up and of the link check (SpecGate)         *)
(***************************************************************************)
\* C26: wait_for_link_up returns (True, dt) only if a poll observed
\* get_link_status() is True at an elapsed time dt below the timeout, and
\* (False, timeout) otherwise; it polls at least once when timeout > 0.
\* In both scripts, when it returns False main prints an ERROR line and
\* exits with status 1 without connecting blocks, committing the graph,
\* starting a pump or reading a counter.
C26_LinkGate ==
    wl_ret # <<>>
    => /\ wl_ret[1]
          => /\ wl_polls # <<>>
             /\ wl_polls[Len(wl_polls)] = <<wl_ret[2], TRUE>>
             /\ wl_ret[2] < wl_timeout
       /\ (\A i \in 1..Len(wl_polls) : ~wl_polls[i][2])
          <=> wl_ret = <<FALSE, wl_timeout>>
       /\ wl_timeout > 0 => wl_polls # <<>>
       /\ ~wl_ret[1]
          => /\ gate_ops = <<>>
             /\ gate_pc \in {"returned", "exit"}
             /\ gate_pc = "exit"
                => /\ gate_exit = 1
                   /\ gate_out =
                        <<<<"ERROR: Aurora link not up within", wl_timeout>>>>

\* the link stayed down at three polls and main has exited
C26_Witness ==
    /\ gate_script = "nullsrcsink"
    /\ wl_timeout = 3
    /\ wl_polls = << <<0, FALSE>>, <<1, FALSE>>, <<2, FALSE>> >>
    /\ wl_ret = <<FALSE, 3>>
    /\ gate_pc = "exit"
    /\ gate_exit = 1

====
